---- MODULE Spec2Model ----
(***************************************************************************)
(* The book worker of l4book_visualizer (src/unnamed/part_004): the order  *)
(* store with its incremental indexes, the WebSocket adapter with its      *)
(* reconnect backoff, the rebuild scheduler and the offline file path.     *)
(*                                                                         *)
(* Abstractions.  Prices, sizes and timestamps are integers (a price is a  *)
(* number of ticks, a size a number of lots), so the wire strings limitPx  *)
(* and sz are already numbers and the float threshold 1e-12 of             *)
(* removeOrderFromGroups is "next <= 0".  A JavaScript object is a record  *)
(* with a field ref, its identity: Array.indexOf compares refs.  A new     *)
(* object takes the smallest ref no reachable object holds.  Every         *)
(* handler runs to completion, so every handler is one action.             *)
(***************************************************************************)
EXTENDS Integers, Sequences, FiniteSets, TLC

\* ---------------------------------------------------------------- bounds
MaxOid == 2
MaxPrice == 2
MaxSize == 2
MaxMembers == 3
MaxMessages == 2
MaxFailures == 6
MaxLevels == 2
MaxStamp == 2
MaxTick == 3
CursorDen == 2
MaxCalls == 3

\* ------------------------------------------------------ program constants
InitialReconnectDelay == 1000
MaxReconnectDelay == 30000
DefaultRebuildIntervalMs == 100
DefaultTickSize == 1
Epsilon == 0

ADD_STATUSES == {"open"}
REMOVE_STATUSES == {"canceled", "filled", "marginCanceled", "reduceOnlyCanceled"}

\* ------------------------------------------------------------ Map helpers
EmptyMap == << >>
MapHas(m, k) == k \in DOMAIN m
MapGet(m, k, d) == IF k \in DOMAIN m THEN m[k] ELSE d
MapSet(m, k, v) == [x \in (DOMAIN m) \cup {k} |-> IF x = k THEN v ELSE m[x]]
MapDelete(m, k) == [x \in (DOMAIN m) \ {k} |-> m[x]]

Min(a, b) == IF a <= b THEN a ELSE b

\* The removal of the element at index i (Array.splice(i, 1)).
Splice(s, i) == SubSeq(s, 1, i - 1) \o SubSeq(s, i + 1, Len(s))

\* --------------------------------------------------------------- the store
\* The four maps of the worker as one value: orders (oid -> Order), byPrice
\* (price -> member list), bidMap and askMap (price -> total size).  keys is
\* the iteration order of byPrice: its prices in the order they were set.
EmptyStore == [orders |-> EmptyMap, byPrice |-> EmptyMap, keys |-> << >>,
               bidMap |-> EmptyMap, askMap |-> EmptyMap]

\* All members of all groups, as a set of objects.
Members(bp) == UNION {{bp[p][i] : i \in 1..Len(bp[p])} : p \in DOMAIN bp}
MemberCount(bp) == Cardinality(UNION {{<<p, i>> : i \in 1..Len(bp[p])} : p \in DOMAIN bp})

\* The refs of the objects the store can still reach.
LiveRefs(st) == {st.orders[k].ref : k \in DOMAIN st.orders}
                  \cup {m.ref : m \in Members(st.byPrice)}
NewRef(st) == CHOOSE n \in 1..(Cardinality(LiveRefs(st)) + 1) :
                /\ n \notin LiveRefs(st)
                /\ \A k \in 1..(n - 1) : k \in LiveRefs(st)

\* parseOrder: null for an untriggered trigger order, else a new Order.  The
\* field untriggered is history: it records that the raw order was flagged
\* as a trigger order whose condition is not 'Triggered'.
IsUntriggered(raw) == raw.isTrigger /\ raw.triggerCondition # "Triggered"
NullOrder == [oid |-> 0]
MakeOrder(raw, r) ==
    [oid |-> raw.oid,
     side |-> IF raw.side = "B" THEN 0 ELSE 1,
     price |-> raw.limitPx,
     size |-> raw.sz,
     timestamp |-> raw.timestamp,
     user |-> raw.user,
     untriggered |-> IsUntriggered(raw),
     ref |-> r]
parseOrder_NoFilter(raw, r) == MakeOrder(raw, r)
parseOrder(raw, r) == IF IsUntriggered(raw) THEN NullOrder ELSE MakeOrder(raw, r)

SideMapAdd(map, o) == MapSet(map, o.price, MapGet(map, o.price, 0) + o.size)
addOrderToGroups(st, o) ==
    [st EXCEPT
       !.byPrice = MapSet(@, o.price, Append(MapGet(@, o.price, << >>), o)),
       !.keys = IF MapHas(st.byPrice, o.price) THEN @ ELSE Append(@, o.price),
       !.bidMap = IF o.side = 0 THEN SideMapAdd(@, o) ELSE @,
       !.askMap = IF o.side = 0 THEN @ ELSE SideMapAdd(@, o)]

\* group.indexOf(o): the first index holding the very object o, 0 if none.
IndexOf(group, o) ==
    IF \E i \in 1..Len(group) : group[i].ref = o.ref
    THEN CHOOSE i \in 1..Len(group) :
           /\ group[i].ref = o.ref
           /\ \A j \in 1..(i - 1) : group[j].ref # o.ref
    ELSE 0
GroupRemove(bp, o) ==
    IF ~MapHas(bp, o.price) THEN bp
    ELSE LET group == bp[o.price]
             idx == IndexOf(group, o)
             g2 == IF idx >= 1 THEN Splice(group, idx) ELSE group
         IN  IF Len(g2) = 0 THEN MapDelete(bp, o.price) ELSE MapSet(bp, o.price, g2)
SideMapRemove(map, o) ==
    LET prev == MapGet(map, o.price, 0)
        next == prev - o.size
    IN  IF next <= Epsilon THEN MapDelete(map, o.price) ELSE MapSet(map, o.price, next)
removeOrderFromGroups(st, o) ==
    [st EXCEPT
       !.byPrice = GroupRemove(@, o),
       !.keys = SelectSeq(@, LAMBDA p : MapHas(GroupRemove(st.byPrice, o), p)),
       !.bidMap = IF o.side = 0 THEN SideMapRemove(@, o) ELSE @,
       !.askMap = IF o.side = 0 THEN @ ELSE SideMapRemove(@, o)]

clearIncrementalState(st) ==
    [st EXCEPT !.byPrice = EmptyMap, !.keys = << >>,
               !.bidMap = EmptyMap, !.askMap = EmptyMap]

\* Array.sort((a, b) => a.timestamp - b.timestamp): a stable sort.
RECURSIVE InsertByTimestamp(_, _)
InsertByTimestamp(sorted, o) ==
    IF sorted = << >> THEN << o >>
    ELSE IF sorted[Len(sorted)].timestamp <= o.timestamp THEN Append(sorted, o)
    ELSE Append(InsertByTimestamp(SubSeq(sorted, 1, Len(sorted) - 1), o),
                sorted[Len(sorted)])
RECURSIVE SortByTimestamp(_)
SortByTimestamp(s) ==
    IF s = << >> THEN << >>
    ELSE InsertByTimestamp(SortByTimestamp(SubSeq(s, 1, Len(s) - 1)), s[Len(s)])

\* buildSnapshotView: null when the orders map is empty; otherwise it sorts
\* every group in place before it reads it.
ViewIsNull(st) == DOMAIN st.orders = {}
buildSnapshotViewSort(st) ==
    IF ViewIsNull(st) THEN st
    ELSE [st EXCEPT !.byPrice = [p \in DOMAIN @ |-> SortByTimestamp(@[p])]]

\* A brightness is the fraction num/den; typed arrays start zeroed, so a row
\* the loop never wrote reads 0 everywhere (written is history).
Half == [num |-> 1, den |-> 2]
RankBrightness(rank, maxRank) ==
    IF maxRank > 0 THEN [num |-> rank, den |-> maxRank] ELSE Half
ZeroRow == [price |-> 0, yOffset |-> 0, size |-> 0, side |-> 0,
            brightness |-> [num |-> 0, den |-> 1], timestamp |-> 0,
            user |-> 0, written |-> FALSE]
\* cumOffset before the member at index gi (1-based) of a group.
RECURSIVE CumOffset(_, _)
CumOffset(group, gi) ==
    IF gi <= 1 THEN 0 ELSE CumOffset(group, gi - 1) + group[gi - 1].size
\* The rows the inner loop of buildSnapshotView writes for one sorted group.
GroupRows(group) ==
    [gi \in 1..Len(group) |->
        [price |-> group[gi].price,
         yOffset |-> CumOffset(group, gi),
         size |-> group[gi].size,
         side |-> group[gi].side,
         brightness |-> RankBrightness(gi - 1, Len(group) - 1),
         timestamp |-> group[gi].timestamp,
         user |-> group[gi].user,
         written |-> TRUE]]
\* The members the outer loop visits, in the order it visits them.
RECURSIVE HeatmapMembers(_, _)
HeatmapMembers(bp, keys) ==
    IF keys = << >> THEN << >>
    ELSE SortByTimestamp(bp[Head(keys)]) \o HeatmapMembers(bp, Tail(keys))
\* The outer loop: the groups in the iteration order of byPrice.
RECURSIVE HeatmapRows(_, _)
HeatmapRows(bp, keys) ==
    IF keys = << >> THEN << >>
    ELSE GroupRows(SortByTimestamp(bp[Head(keys)])) \o HeatmapRows(bp, Tail(keys))
\* The typed arrays hold orderCount rows: a write past the end is dropped, a
\* row never written stays zero.
FitRows(all, orderCount) ==
    [i \in 1..orderCount |-> IF i <= Len(all) THEN all[i] ELSE ZeroRow]
\* maxCumSize: the largest cumOffset a group ends with.
MaxCumSize(bp) ==
    IF DOMAIN bp = {} THEN 0
    ELSE LET total(p) == CumOffset(bp[p], Len(bp[p]) + 1)
         IN  total(CHOOSE p \in DOMAIN bp : \A q \in DOMAIN bp : total(q) <= total(p))
\* The keys of a side map sorted as the depth arrays want them: bids from the
\* highest price down, asks from the lowest price up.
RECURSIVE SortedPrices(_, _)
SortedPrices(prices, descending) ==
    IF prices = {} THEN << >>
    ELSE LET best == CHOOSE p \in prices :
                       \A q \in prices : IF descending THEN q <= p ELSE p <= q
         IN  <<best>> \o SortedPrices(prices \ {best}, descending)
RECURSIVE CumSizes(_, _, _)
CumSizes(map, sorted, i) ==
    IF i = 0 THEN 0 ELSE CumSizes(map, sorted, i - 1) + map[sorted[i]]
\* One side of the depth view: prices, sizes and running cumSizes.
DepthSide_Unsorted(map, descending) ==
    LET sorted == SortedPrices(DOMAIN map, FALSE)
    IN  [i \in 1..Len(sorted) |->
            [price |-> sorted[i], size |-> map[sorted[i]],
             cumSize |-> CumSizes(map, sorted, i)]]
DepthSide(map, descending) ==
    LET sorted == SortedPrices(DOMAIN map, descending)
    IN  [i \in 1..Len(sorted) |->
            [price |-> sorted[i], size |-> map[sorted[i]],
             cumSize |-> CumSizes(map, sorted, i)]]
\* dataPriceMin and dataPriceMax over the keys of byPrice, 0 without keys.
PriceMin(bp) == IF DOMAIN bp = {} THEN 0 ELSE SortedPrices(DOMAIN bp, FALSE)[1]
PriceMax(bp) == IF DOMAIN bp = {} THEN 0 ELSE SortedPrices(DOMAIN bp, TRUE)[1]
\* The value buildSnapshotView returns for a non-empty orders map.
buildSnapshotView(st, tick, diffs, msgs, intervalMs) ==
    LET orderCount == Cardinality(DOMAIN st.orders)
    IN  [count |-> orderCount,
         rows |-> FitRows(HeatmapRows(st.byPrice, st.keys), orderCount),
         bids |-> DepthSide(st.bidMap, TRUE),
         asks |-> DepthSide(st.askMap, FALSE),
         maxCumSize |-> MaxCumSize(st.byPrice),
         dataPriceMin |-> PriceMin(st.byPrice),
         dataPriceMax |-> PriceMax(st.byPrice),
         tickSize |-> tick,
         orderCount |-> orderCount,
         diffsApplied |-> diffs,
         messagesReceived |-> msgs,
         rebuildIntervalMs |-> intervalMs]
\* What a handler that posts no view leaves in view.
NoView == [count |-> 0, rows |-> << >>, bids |-> << >>, asks |-> << >>,
           maxCumSize |-> 0, dataPriceMin |-> 0, dataPriceMax |-> 0,
           tickSize |-> 0, orderCount |-> 0,
           diffsApplied |-> 0, messagesReceived |-> 0, rebuildIntervalMs |-> 0]

\* The tick size handleSnapshot caches: the smallest gap between two
\* consecutive occupied prices, 1 with fewer than two prices.
TickSizeOf(bp) ==
    LET prices == DOMAIN bp
        gaps == {q - p : <<p, q>> \in {pq \in prices \X prices :
                   /\ pq[1] < pq[2]
                   /\ ~\E x \in prices : pq[1] < x /\ x < pq[2]}}
    IN  IF Cardinality(prices) >= 2 /\ gaps # {}
        THEN CHOOSE g \in gaps : \A h \in gaps : g <= h
        ELSE DefaultTickSize

\* The first two statements of handleSnapshot: orders.clear() and
\* clearIncrementalState().  The variant leaves out orders.clear().
handleSnapshotReset_KeepsOrders(st) == clearIncrementalState(st)
handleSnapshotReset(st) == clearIncrementalState([st EXCEPT !.orders = EmptyMap])

\* The loop of handleSnapshot over the flattened levels.
RECURSIVE SnapshotLoop(_, _)
SnapshotLoop(st, raws) ==
    IF raws = << >> THEN st
    ELSE LET o == parseOrder(Head(raws), NewRef(st))
         IN  SnapshotLoop(IF o = NullOrder THEN st
                          ELSE addOrderToGroups(
                                 [st EXCEPT !.orders = MapSet(@, o.oid, o)], o),
                          Tail(raws))

\* handleUpdates, one entry; acc is [st, diffs], the store and
\* diffsSinceLastRebuild.  ApplyOpen is the ADD_STATUSES branch.
ApplyOpen_NoReplace(acc, entry) ==
    LET st == acc.st
        o == MakeOrder(entry.order, NewRef(st))
    IN  IF IsUntriggered(entry.order) THEN acc
        ELSE [st |-> addOrderToGroups([st EXCEPT !.orders = MapSet(@, o.oid, o)], o),
              diffs |-> acc.diffs + 1]
ApplyOpen(acc, entry) ==
    LET st == acc.st
        order == entry.order
        oid == order.oid
    IN  IF IsUntriggered(order) THEN acc
        ELSE LET o == MakeOrder(order, NewRef(st))
                 s1 == IF MapHas(st.orders, oid)
                       THEN removeOrderFromGroups(st, st.orders[oid])
                       ELSE st
                 s2 == [s1 EXCEPT !.orders = MapSet(@, oid, o)]
             IN  [st |-> addOrderToGroups(s2, o), diffs |-> acc.diffs + 1]
\* The REMOVE_STATUSES branch.
ApplyRemove_CountsMissing(acc, entry) ==
    LET st == acc.st
        oid == entry.order.oid
    IN  IF MapHas(st.orders, oid)
        THEN [st |-> [removeOrderFromGroups(st, st.orders[oid])
                        EXCEPT !.orders = MapDelete(@, oid)],
              diffs |-> acc.diffs + 1]
        ELSE [acc EXCEPT !.diffs = @ + 1]
ApplyRemove(acc, entry) ==
    LET st == acc.st
        oid == entry.order.oid
    IN  IF MapHas(st.orders, oid)
        THEN LET s1 == removeOrderFromGroups(st, st.orders[oid])
             IN  [st |-> [s1 EXCEPT !.orders = MapDelete(@, oid)],
                  diffs |-> acc.diffs + 1]
        ELSE acc
ApplyEntry_ElseRemoves(acc, entry) ==
    IF entry.status \in ADD_STATUSES THEN ApplyOpen(acc, entry)
    ELSE ApplyRemove(acc, entry)
ApplyEntry(acc, entry) ==
    IF entry.status \in ADD_STATUSES THEN ApplyOpen(acc, entry)
    ELSE IF entry.status \in REMOVE_STATUSES THEN ApplyRemove(acc, entry)
    ELSE acc
\* A variant that stops after the first entry of the batch.
handleUpdates_FirstOnly(acc, entries) ==
    IF entries = << >> THEN acc ELSE ApplyEntry(acc, Head(entries))
RECURSIVE handleUpdates(_, _)
handleUpdates(acc, entries) ==
    IF entries = << >> THEN acc
    ELSE handleUpdates(ApplyEntry(acc, Head(entries)), Tail(entries))

\* The loop of handleParseFile that fills the worker's orders map (the maps
\* it aggregates into are locals that shadow byPrice, bidMap and askMap).
RECURSIVE ParseFileLoop(_, _)
ParseFileLoop(st, raws) ==
    IF raws = << >> THEN st
    ELSE LET raw == Head(raws)
         IN  ParseFileLoop(IF IsUntriggered(raw) THEN st
                           ELSE [st EXCEPT !.orders =
                                   MapSet(@, raw.oid, MakeOrder(raw, NewRef(st)))],
                           Tail(raws))

\* Array.from(orders.values()) in handleParseFile: the orders map was cleared
\* first, so its values come in the order their oids were first set, each
\* holding the last order set under its oid.
RECURSIVE OrderList(_, _)
OrderList(list, raws) ==
    IF raws = << >> THEN list
    ELSE LET raw == Head(raws)
             o == MakeOrder(raw, Len(list) + 1)
             at == {i \in 1..Len(list) : list[i].oid = raw.oid}
         IN  OrderList(IF IsUntriggered(raw) THEN list
                       ELSE IF at = {} THEN Append(list, o)
                       ELSE [list EXCEPT ![CHOOSE i \in at : TRUE] =
                               [o EXCEPT !.ref = list[CHOOSE i \in at : TRUE].ref]],
                       Tail(raws))
\* The local byPrice of handleParseFile, with its iteration order.
RECURSIVE FileGroups(_, _)
FileGroups(st, list) ==
    IF list = << >> THEN st
    ELSE FileGroups(addOrderToGroups(st, Head(list)), Tail(list))
\* rankOrder: the rank of orderList[i] in the stable sort by timestamp.
RankOf(list, i) ==
    Cardinality({j \in 1..Len(list) :
                   \/ list[j].timestamp < list[i].timestamp
                   \/ list[j].timestamp = list[i].timestamp /\ j < i})
\* The heatmap of a file load: the rows of the locally grouped orders, each
\* with the brightness of its global rank.
FileRows(list) ==
    LET st == FileGroups(EmptyStore, list)
        rows == HeatmapRows(st.byPrice, st.keys)
        sorted == HeatmapMembers(st.byPrice, st.keys)
    IN  [i \in 1..Len(rows) |->
            [rows[i] EXCEPT !.brightness =
               RankBrightness(RankOf(list, CHOOSE k \in 1..Len(list) :
                                             list[k].ref = sorted[i].ref),
                              Len(list) - 1)]]
handleParseFileView(list) ==
    [count |-> Len(list),
     rows |-> FileRows(list),
     bids |-> DepthSide(FileGroups(EmptyStore, list).bidMap, TRUE),
     asks |-> DepthSide(FileGroups(EmptyStore, list).askMap, FALSE),
     maxCumSize |-> MaxCumSize(FileGroups(EmptyStore, list).byPrice),
     dataPriceMin |-> PriceMin(FileGroups(EmptyStore, list).byPrice),
     dataPriceMax |-> PriceMax(FileGroups(EmptyStore, list).byPrice),
     tickSize |-> TickSizeOf(FileGroups(EmptyStore, list).byPrice),
     orderCount |-> Len(list),
     diffsApplied |-> 0,
     messagesReceived |-> 0,
     rebuildIntervalMs |-> 0]

\* The SnapshotView a 'snapshot', 'update' or 'fileResult' message carries as
\* data: the fields of a view that both build paths produce.
Shape(v) == [count |-> v.count, rows |-> v.rows, bids |-> v.bids, asks |-> v.asks,
             maxCumSize |-> v.maxCumSize, tickSize |-> v.tickSize,
             dataPriceMin |-> v.dataPriceMin, dataPriceMax |-> v.dataPriceMax]

\* ------------------------------------------------------ the page's regrouping
\* snapshot.heatmap, the HeatmapData that OrderBook hands to regroupHeatmap.
Heatmap(data) == [count |-> data.count, rows |-> data.rows,
                  maxCumSize |-> data.maxCumSize, tickSize |-> data.tickSize,
                  dataPriceMin |-> data.dataPriceMin,
                  dataPriceMax |-> data.dataPriceMax]
\* A variant that snaps asks down as well.
groupedPriceFor_FloorBoth(price, side, newTickSize) ==
    (price \div newTickSize) * newTickSize
\* Bids snap down to a multiple of the new tick, asks snap up.
groupedPriceFor(price, side, newTickSize) ==
    IF side = 0
    THEN (price \div newTickSize) * newTickSize
    ELSE ((price + newTickSize - 1) \div newTickSize) * newTickSize
\* The key of byPriceSide for a row, `${gp}:${side}`.
PriceSideKey(row, newTickSize) ==
    <<groupedPriceFor(row.price, row.side, newTickSize), row.side>>
\* The keys of byPriceSide in insertion order.
RECURSIVE PriceSideKeys(_, _, _)
PriceSideKeys(rows, newTickSize, keys) ==
    IF rows = << >> THEN keys
    ELSE LET key == PriceSideKey(Head(rows), newTickSize)
         IN  PriceSideKeys(Tail(rows), newTickSize,
                           IF \E i \in 1..Len(keys) : keys[i] = key THEN keys
                           ELSE Append(keys, key))
\* One group of byPriceSide, sorted by timestamp.
PriceSideGroup(rows, newTickSize, key) ==
    SortByTimestamp(SelectSeq(rows, LAMBDA r : PriceSideKey(r, newTickSize) = key))
\* A variant that keeps one row per run of equal timestamps in a group.
RegroupedRows_Merged(group, gp) ==
    LET kept == SelectSeq([gi \in 1..Len(group) |-> [row |-> group[gi], gi |-> gi]],
                          LAMBDA e : e.gi = 1 \/ group[e.gi - 1].timestamp # e.row.timestamp)
    IN  [i \in 1..Len(kept) |->
           [price |-> gp, yOffset |-> CumOffset(group, kept[i].gi),
            size |-> kept[i].row.size, side |-> kept[i].row.side,
            brightness |-> kept[i].row.brightness,
            timestamp |-> kept[i].row.timestamp,
            user |-> kept[i].row.user, written |-> TRUE]]
\* The rows the inner loop writes for one group at the bucketed price gp.
RegroupedRows(group, gp) ==
    [gi \in 1..Len(group) |->
        [price |-> gp,
         yOffset |-> CumOffset(group, gi),
         size |-> group[gi].size,
         side |-> group[gi].side,
         brightness |-> group[gi].brightness,
         timestamp |-> group[gi].timestamp,
         user |-> group[gi].user,
         written |-> TRUE]]
RECURSIVE RegroupLoop(_, _, _)
RegroupLoop(rows, newTickSize, keys) ==
    IF keys = << >> THEN << >>
    ELSE RegroupedRows(PriceSideGroup(rows, newTickSize, Head(keys)), Head(keys)[1])
           \o RegroupLoop(rows, newTickSize, Tail(keys))
\* A variant without the early return: it regroups unless the new tick is
\* strictly smaller.
regroupHeatmap_NoReturn(original, newTickSize) ==
    IF newTickSize < original.tickSize THEN original
    ELSE LET rows == SubSeq(original.rows, 1, original.count)
             keys == PriceSideKeys(rows, newTickSize, << >>)
             total(k) == LET g == PriceSideGroup(rows, newTickSize, keys[k])
                         IN  CumOffset(g, Len(g) + 1)
             gps == {keys[k][1] : k \in 1..Len(keys)}
         IN  [count |-> original.count,
              rows |-> RegroupLoop(rows, newTickSize, keys),
              maxCumSize |-> IF keys = << >> THEN 0
                             ELSE total(CHOOSE k \in 1..Len(keys) :
                                          \A j \in 1..Len(keys) : total(j) <= total(k)),
              tickSize |-> newTickSize,
              dataPriceMin |-> IF gps = {} THEN original.dataPriceMin
                               ELSE CHOOSE g \in gps : \A h \in gps : g <= h,
              dataPriceMax |-> IF gps = {} THEN original.dataPriceMax
                               ELSE CHOOSE g \in gps : \A h \in gps : h <= g]
regroupHeatmap(original, newTickSize) ==
    IF newTickSize <= original.tickSize THEN original
    ELSE LET rows == SubSeq(original.rows, 1, original.count)
             keys == PriceSideKeys(rows, newTickSize, << >>)
             total(k) == LET g == PriceSideGroup(rows, newTickSize, keys[k])
                         IN  CumOffset(g, Len(g) + 1)
             gps == {keys[k][1] : k \in 1..Len(keys)}
         IN  [count |-> original.count,
              rows |-> RegroupLoop(rows, newTickSize, keys),
              maxCumSize |-> IF keys = << >> THEN 0
                             ELSE total(CHOOSE k \in 1..Len(keys) :
                                          \A j \in 1..Len(keys) : total(j) <= total(k)),
              tickSize |-> newTickSize,
              dataPriceMin |-> IF gps = {} THEN original.dataPriceMin
                               ELSE CHOOSE g \in gps : \A h \in gps : g <= h,
              dataPriceMax |-> IF gps = {} THEN original.dataPriceMax
                               ELSE CHOOSE g \in gps : \A h \in gps : h <= g]
\* ------------------------------------------------------ the order locator
\* findNearestOrder.  The cursor fractions fx and fy are numerators over
\* CursorDen, and every coordinate below is scaled by CursorDen.
Abs(x) == IF x < 0 THEN 0 - x ELSE x
TargetPrice(range, fx) == CursorDen * range.priceMin + fx * (range.priceMax - range.priceMin)
TargetY(range, fy) == CursorDen * range.yMax - fy * (range.yMax - range.yMin)
\* Step 1: the index whose price is first at the smallest distance, 0 if
\* there are no rows.
PriceDist(data, i, targetPrice) == Abs(CursorDen * data.rows[i].price - targetPrice)
NearestPriceIndex(data, targetPrice) ==
    IF data.count = 0 THEN 0
    ELSE CHOOSE i \in 1..data.count :
           /\ \A j \in 1..data.count :
                 PriceDist(data, i, targetPrice) <= PriceDist(data, j, targetPrice)
           /\ \A j \in 1..(i - 1) :
                 PriceDist(data, j, targetPrice) > PriceDist(data, i, targetPrice)
\* Step 2: the distance from the cursor to the bar of a row, 0 inside it.
\* The variant measures to the top edge only.
YDist_TopOnly(row, targetY) == Abs(targetY - CursorDen * (row.yOffset + row.size))
YDist(row, targetY) ==
    LET top == CursorDen * (row.yOffset + row.size)
        bot == CursorDen * row.yOffset
    IN  IF targetY >= bot /\ targetY <= top THEN 0
        ELSE Min(Abs(targetY - bot), Abs(targetY - top))
NoOrder == [index |-> 0]
findNearestOrder(data, range, fx, fy) ==
    LET targetPrice == TargetPrice(range, fx)
        targetY == TargetY(range, fy)
        near == NearestPriceIndex(data, targetPrice)
    IN  IF range.priceMax - range.priceMin <= 0 \/ range.yMax - range.yMin <= 0
        THEN NoOrder
        ELSE IF near = 0 THEN NoOrder
        ELSE IF 2 * PriceDist(data, near, targetPrice) > CursorDen * data.tickSize
        THEN NoOrder
        ELSE LET snapPrice == data.rows[near].price
                 at == {i \in 1..data.count : data.rows[i].price = snapPrice}
                 bestIdx == CHOOSE i \in at :
                              /\ \A j \in at :
                                    YDist(data.rows[i], targetY) <= YDist(data.rows[j], targetY)
                              /\ \A j \in at :
                                    j < i => YDist(data.rows[j], targetY)
                                               > YDist(data.rows[i], targetY)
             IN  [index |-> bestIdx,
                  price |-> data.rows[bestIdx].price,
                  size |-> data.rows[bestIdx].size,
                  yOffset |-> data.rows[bestIdx].yOffset,
                  side |-> IF data.rows[bestIdx].side = 0 THEN "Bid" ELSE "Ask",
                  brightness |-> data.rows[bestIdx].brightness,
                  timestamp |-> data.rows[bestIdx].timestamp,
                  user |-> data.rows[bestIdx].user]

\* The page shows no book: snapshot is null and OrderBook is not rendered.
NoSnapshot == Shape(NoView)

\* ------------------------------------------------------------------ state
VARIABLES
    orders, byPrice, bidMap, askMap, cachedTickSize,   \* the order store
    byPriceKeys,  \* the prices of byPrice in insertion order
    dirty, diffsSinceLastRebuild, messagesReceived,    \* scheduler counters
    rebuildIntervalMs, rebuildTimer,                   \* the setInterval timer
    ws, pendingUrl,                                    \* the transport
    oldHandlers,          \* the handlers of the transport cancelled last
    reconnectTimer, reconnectDelay,                    \* the setTimeout timer
    timerDelay,   \* the delay the pending reconnect timer was armed with
    failures,     \* history: scheduleReconnect calls since the last open
    out,          \* the messages the last handler posted, in order
    prevStatus,   \* history: the last status posted before that handler
    lastOp,       \* history: the handler that ran last
    lastIn,       \* history: the payload that handler was given
    view,         \* the view the last handler posted, NoView if it posted none
    sinceSubscribed,  \* history: the kinds of view posted since 'subscribed'
    snapshot,     \* the page: the SnapshotView it shows, NoSnapshot for null
    paused,       \* the page: the Pause button is in
    mode,         \* the page: 'idle', 'stream' or 'file'
    tickSize,     \* the page: the tick size handed to OrderBook
    heatmapData,  \* OrderBook: $derived(regroupHeatmap(snapshot.heatmap, tickSize))
    nearest,      \* Heatmap: the last click, [range, fx, fy, found]
    client        \* createWorkerClient: its pending slot, the messages in
                  \* flight to and from the snapshot worker, and the history
                  \* of the parse calls made and the callbacks invoked

storeVars == <<orders, byPrice, byPriceKeys, bidMap, askMap, cachedTickSize>>
schedVars == <<dirty, diffsSinceLastRebuild, messagesReceived,
               rebuildIntervalMs, rebuildTimer>>
connVars == <<ws, oldHandlers, pendingUrl, reconnectTimer, reconnectDelay, timerDelay, failures>>
pageVars == <<snapshot, paused, mode, tickSize, heatmapData>>
vars == <<orders, byPrice, byPriceKeys, bidMap, askMap, cachedTickSize,
          dirty, diffsSinceLastRebuild, messagesReceived,
          rebuildIntervalMs, rebuildTimer, ws, oldHandlers, pendingUrl,
          reconnectTimer, reconnectDelay, timerDelay, failures,
          out, prevStatus, lastOp, lastIn, view, sinceSubscribed,
          snapshot, paused, mode, tickSize, heatmapData, nearest, client>>

Store == [orders |-> orders, byPrice |-> byPrice, keys |-> byPriceKeys,
          bidMap |-> bidMap, askMap |-> askMap]
SetStore(st) ==
    /\ orders' = st.orders
    /\ byPrice' = st.byPrice
    /\ byPriceKeys' = st.keys
    /\ bidMap' = st.bidMap
    /\ askMap' = st.askMap

Statuses == {"connecting", "connected", "subscribed", "disconnected", "error", "idle"}
StatusesOf(msgs) == SelectSeq(msgs, LAMBDA m : m \in Statuses)
\* The last status posted so far.
CurStatus ==
    LET ss == StatusesOf(out) IN IF ss = << >> THEN prevStatus ELSE ss[Len(ss)]
\* What every handler records: its name, its payload and what it posted,
\* with the view of a 'snapshot', 'update' or 'fileResult' message.
ViewKinds == {"snapshot", "update"}
\* The page's side of a handler: handleConnect and handleDisconnect around
\* the request they send, and the callbacks of createBookWorkerClient for the
\* messages the worker posts.  onUpdate returns at once while paused;
\* onSnapshot and onFileResult also take the tick size of the view
\* (applyTickFromSnapshot without a cached szDecimals).
Callbacks(op, msgs, v) ==
    LET has(kind) == \E i \in 1..Len(msgs) : msgs[i] = kind
        data == IF op \in {"connect", "disconnect"} THEN NoSnapshot
                ELSE IF has("snapshot") \/ has("fileResult") THEN Shape(v)
                ELSE IF has("update") /\ ~paused THEN Shape(v)
                ELSE snapshot
        tick == IF has("snapshot") \/ has("fileResult") THEN v.tickSize ELSE tickSize
    IN  /\ paused' = IF op = "connect" THEN FALSE ELSE paused
        /\ mode' = IF op = "disconnect" THEN "idle"
                   ELSE IF has("snapshot") THEN "stream"
                   ELSE IF has("fileResult") THEN "file"
                   ELSE mode
        /\ snapshot' = data
        /\ tickSize' = tick
        /\ heatmapData' = IF data = NoSnapshot THEN Heatmap(NoSnapshot)
                          ELSE regroupHeatmap(Heatmap(data), tick)
PostView(op, input, msgs, v) ==
    /\ Callbacks(op, msgs, v)
    /\ nearest' = nearest
    /\ client' = client
    /\ lastOp' = op
    /\ lastIn' = input
    /\ out' = msgs
    /\ prevStatus' = CurStatus
    /\ view' = v
    /\ sinceSubscribed' =
         IF \E i \in 1..Len(msgs) : msgs[i] = "subscribed" THEN {}
         ELSE sinceSubscribed \cup {msgs[i] : i \in {j \in 1..Len(msgs) : msgs[j] \in ViewKinds}}
Post(op, input, msgs) == PostView(op, input, msgs, NoView)
\* What a step of the page that sends the worker nothing records.
PageStep(op, input) ==
    /\ lastOp' = op
    /\ lastIn' = input
    /\ out' = << >>
    /\ prevStatus' = CurStatus
    /\ view' = NoView
    /\ UNCHANGED <<sinceSubscribed, storeVars, schedVars, connVars>>

\* A client just created: nothing pending, nothing in flight.
NewClient == [calls |-> 0, pending |-> 0, inbox |-> << >>, replies |-> << >>,
              invoked |-> << >>]
\* What Heatmap holds before the first click.
NoClick == [range |-> [priceMin |-> 0, priceMax |-> 0, yMin |-> 0, yMax |-> 0],
            fx |-> 0, fy |-> 0, found |-> NoOrder]

\* Between ws.onerror and the ws.onclose that follows it in the same task.
InTask == ws = "failing"

Init ==
    /\ orders = EmptyMap /\ byPrice = EmptyMap /\ byPriceKeys = << >>
    /\ bidMap = EmptyMap /\ askMap = EmptyMap
    /\ cachedTickSize = DefaultTickSize
    /\ dirty = FALSE
    /\ diffsSinceLastRebuild = 0
    /\ messagesReceived = 0
    /\ rebuildIntervalMs = DefaultRebuildIntervalMs
    /\ rebuildTimer = FALSE
    /\ ws = "null"
    /\ oldHandlers = "none"
    /\ pendingUrl = ""
    /\ reconnectTimer = FALSE
    /\ reconnectDelay = InitialReconnectDelay
    /\ timerDelay = 0
    /\ failures = 0
    /\ out = << >>
    /\ prevStatus = "none"
    /\ lastOp = "init"
    /\ lastIn = << >>
    /\ view = NoView
    /\ sinceSubscribed = {}
    /\ snapshot = NoSnapshot
    /\ paused = FALSE
    /\ mode = "idle"
    /\ tickSize = 1
    /\ heatmapData = Heatmap(NoSnapshot)
    /\ nearest = NoClick
    /\ client = NewClient

\* -------------------------------------------------------------- the adapter
\* scheduleReconnect: arm the timer with the current delay, then double it.
scheduleReconnect_NoCap ==
    /\ reconnectTimer' = TRUE
    /\ timerDelay' = reconnectDelay
    /\ reconnectDelay' = reconnectDelay * 2
    /\ failures' = failures + 1
scheduleReconnect ==
    /\ reconnectTimer' = TRUE
    /\ timerDelay' = reconnectDelay
    /\ reconnectDelay' = Min(reconnectDelay * 2, MaxReconnectDelay)
    /\ failures' = failures + 1

\* disconnectWs, but for the reconnect variables: both timers are cleared, a
\* transport loses its handlers and is closed, the store is emptied.
cancelTransport_KeepsHandlers(w) == IF w = "null" THEN oldHandlers ELSE "attached"
cancelTransport(w) == IF w = "null" THEN oldHandlers ELSE "detached"
\* The variant leaves the orders and their groups in place.
disconnectWsStore_KeepsStore ==
    /\ oldHandlers' = cancelTransport(ws)
    /\ UNCHANGED <<orders, byPrice, byPriceKeys, bidMap, askMap>>
    /\ cachedTickSize' = DefaultTickSize
    /\ dirty' = FALSE
    /\ rebuildTimer' = FALSE
disconnectWsStore ==
    /\ oldHandlers' = cancelTransport(ws)
    /\ SetStore(EmptyStore)
    /\ cachedTickSize' = DefaultTickSize
    /\ dirty' = FALSE
    /\ rebuildTimer' = FALSE

\* connectWs(url): new WebSocket(url) throws for a url it rejects.
connectWs(url) ==
    /\ disconnectWsStore
    /\ pendingUrl' = url
    /\ messagesReceived' = 0
    /\ diffsSinceLastRebuild' = 0
    /\ rebuildIntervalMs' = rebuildIntervalMs
    /\ IF url = "bad"
       THEN /\ failures < MaxFailures
            /\ ws' = "null"
            /\ scheduleReconnect
       ELSE /\ ws' = "connecting"
            /\ reconnectTimer' = FALSE
            /\ timerDelay' = 0
            /\ UNCHANGED <<reconnectDelay, failures>>

Connect(urls) ==
    \E url \in urls :
        /\ ~InTask
        /\ connectWs(url)
        /\ Post("connect", << >>,
                IF url = "bad" THEN <<"connecting", "error">> ELSE <<"connecting">>)

\* The callback of the reconnect timer.
ReconnectFire ==
    /\ ~InTask
    /\ reconnectTimer
    /\ connectWs(pendingUrl)
    /\ Post("reconnect", << >>,
            IF pendingUrl = "bad" THEN <<"connecting", "error">> ELSE <<"connecting">>)

Disconnect_KeepsTimer ==
    /\ ~InTask
    /\ disconnectWsStore
    /\ ws' = "null"
    /\ UNCHANGED <<pendingUrl, reconnectTimer, reconnectDelay, timerDelay, failures,
                   messagesReceived, diffsSinceLastRebuild, rebuildIntervalMs>>
    /\ Post("disconnect", << >>, <<"idle">>)
Disconnect ==
    /\ ~InTask
    /\ disconnectWsStore
    /\ ws' = "null"
    /\ reconnectTimer' = FALSE
    /\ timerDelay' = 0
    /\ UNCHANGED <<pendingUrl, reconnectDelay, failures,
                   messagesReceived, diffsSinceLastRebuild, rebuildIntervalMs>>
    /\ Post("disconnect", << >>, <<"idle">>)

\* ws.onopen
WsOpen_NoSubscribed ==
    /\ ws = "connecting"
    /\ ws' = "open"
    /\ reconnectDelay' = InitialReconnectDelay
    /\ failures' = 0
    /\ rebuildTimer' = TRUE
    /\ UNCHANGED <<storeVars, dirty, diffsSinceLastRebuild, messagesReceived,
                   rebuildIntervalMs, oldHandlers, pendingUrl, reconnectTimer, timerDelay>>
    /\ Post("open", << >>, <<"connected">>)
WsOpen ==
    /\ ws = "connecting"
    /\ ws' = "open"
    /\ reconnectDelay' = InitialReconnectDelay
    /\ failures' = 0
    /\ rebuildTimer' = TRUE
    /\ UNCHANGED <<storeVars, dirty, diffsSinceLastRebuild, messagesReceived,
                   rebuildIntervalMs, oldHandlers, pendingUrl, reconnectTimer, timerDelay>>
    /\ Post("open", << >>, <<"connected", "subscribed">>)

\* ws.onerror: the browser fires close right after it, in the same task, so
\* no other handler runs while ws is "failing" (InTask).  The variant leaves
\* the rebuild timer running.
WsError_KeepsScheduler ==
    /\ ws \in {"connecting", "open"}
    /\ failures < MaxFailures
    /\ ws' = "failing"
    /\ rebuildTimer' = rebuildTimer
    /\ UNCHANGED <<storeVars, dirty, diffsSinceLastRebuild, messagesReceived,
                   rebuildIntervalMs, oldHandlers, pendingUrl, reconnectTimer, reconnectDelay,
                   timerDelay, failures>>
    /\ Post("error", << >>, <<"error">>)
WsError ==
    /\ ws \in {"connecting", "open"}
    /\ failures < MaxFailures
    /\ ws' = "failing"
    /\ rebuildTimer' = FALSE
    /\ UNCHANGED <<storeVars, dirty, diffsSinceLastRebuild, messagesReceived,
                   rebuildIntervalMs, oldHandlers, pendingUrl, reconnectTimer, reconnectDelay,
                   timerDelay, failures>>
    /\ Post("error", << >>, <<"error">>)

\* ws.onclose: the transport object stays in ws, dead.
WsClose_NoReconnect ==
    /\ ws \in {"open", "failing"}
    /\ failures < MaxFailures
    /\ ws' = "closed"
    /\ rebuildTimer' = FALSE
    /\ UNCHANGED <<storeVars, dirty, diffsSinceLastRebuild, messagesReceived,
                   rebuildIntervalMs, oldHandlers, pendingUrl, reconnectTimer,
                   reconnectDelay, timerDelay, failures>>
    /\ Post("close", << >>, <<"disconnected">>)
WsClose ==
    /\ ws \in {"open", "failing"}
    /\ failures < MaxFailures
    /\ ws' = "closed"
    /\ rebuildTimer' = FALSE
    /\ scheduleReconnect
    /\ UNCHANGED <<storeVars, dirty, diffsSinceLastRebuild, messagesReceived,
                   rebuildIntervalMs, oldHandlers, pendingUrl>>
    /\ Post("close", << >>, <<"disconnected">>)

\* An open, message, close or error event of the transport cancelled last.
\* disconnectWs set its four handlers to null before closing it, so the
\* event finds no handler; a handler left attached would run.
EventKinds == {"open", "message", "close", "error"}
StaleEvent(kinds) ==
    \E kind \in kinds :
        /\ ~InTask
        /\ oldHandlers # "none"
        /\ IF oldHandlers = "detached"
           THEN /\ UNCHANGED <<storeVars, schedVars, connVars>>
                /\ Post("stale", kind, << >>)
           ELSE /\ failures < MaxFailures
                /\ rebuildTimer' = (kind = "open")
                /\ messagesReceived' = messagesReceived + (IF kind = "message" THEN 1 ELSE 0)
                /\ IF kind = "close"
                   THEN scheduleReconnect
                   ELSE UNCHANGED <<reconnectTimer, reconnectDelay, timerDelay, failures>>
                /\ UNCHANGED <<storeVars, dirty, diffsSinceLastRebuild,
                               rebuildIntervalMs, ws, oldHandlers, pendingUrl>>
                /\ Post("stale", kind,
                        CASE kind = "open" -> <<"connected", "subscribed">>
                          [] kind = "message" -> << >>
                          [] kind = "close" -> <<"disconnected">>
                          [] kind = "error" -> <<"error">>)

\* ------------------------------------------------------- transport messages
\* handleWsMessage for a body JSON.parse rejects or of another channel.
WsGarbage ==
    /\ ws = "open"
    /\ messagesReceived < MaxMessages
    /\ messagesReceived' = messagesReceived + 1
    /\ UNCHANGED <<storeVars, dirty, diffsSinceLastRebuild,
                   rebuildIntervalMs, rebuildTimer, connVars>>
    /\ Post("garbage", << >>, << >>)

\* handleWsMessage -> handleSnapshot.  A snapshot without levels makes
\* (levels).flat() throw after the store has been cleared.
WsSnapshot(snapshots) ==
    \E msg \in snapshots :
        /\ ws = "open"
        /\ messagesReceived < MaxMessages
        /\ messagesReceived' = messagesReceived + 1
        /\ IF msg.hasLevels
           THEN LET st == SnapshotLoop(handleSnapshotReset(Store), msg.levels)
                IN  /\ SetStore(buildSnapshotViewSort(st))
                    /\ cachedTickSize' = TickSizeOf(st.byPrice)
                    /\ diffsSinceLastRebuild' = 0
                    /\ IF ViewIsNull(st)
                       THEN Post("snapshot", msg, << >>)
                       ELSE PostView("snapshot", msg, <<"snapshot">>,
                                     buildSnapshotView(st, TickSizeOf(st.byPrice), 0,
                                                       messagesReceived + 1,
                                                       rebuildIntervalMs))
           ELSE /\ SetStore(handleSnapshotReset(Store))
                /\ cachedTickSize' = DefaultTickSize
                /\ diffsSinceLastRebuild' = diffsSinceLastRebuild
                /\ Post("snapshot", msg, << >>)
        /\ UNCHANGED <<dirty, rebuildIntervalMs, rebuildTimer, connVars>>

\* handleWsMessage -> handleUpdates.  The variant recomputes the tick size
\* from the prices the batch leaves.
WsUpdates_Recomputes(batches) ==
    \E batch \in batches :
        LET r == handleUpdates([st |-> Store, diffs |-> diffsSinceLastRebuild], batch)
        IN  /\ ws = "open"
            /\ messagesReceived < MaxMessages
            /\ MemberCount(r.st.byPrice) <= MaxMembers
            /\ messagesReceived' = messagesReceived + 1
            /\ SetStore(r.st)
            /\ diffsSinceLastRebuild' = r.diffs
            /\ dirty' = IF r.diffs > 0 THEN TRUE ELSE dirty
            /\ cachedTickSize' = TickSizeOf(r.st.byPrice)
            /\ UNCHANGED <<rebuildIntervalMs, rebuildTimer, connVars>>
            /\ Post("updates", batch, << >>)
WsUpdates(batches) ==
    \E batch \in batches :
        LET r == handleUpdates([st |-> Store, diffs |-> diffsSinceLastRebuild], batch)
        IN  /\ ws = "open"
            /\ messagesReceived < MaxMessages
            /\ MemberCount(r.st.byPrice) <= MaxMembers
            /\ messagesReceived' = messagesReceived + 1
            /\ SetStore(r.st)
            /\ diffsSinceLastRebuild' = r.diffs
            /\ dirty' = IF r.diffs > 0 THEN TRUE ELSE dirty
            /\ UNCHANGED <<cachedTickSize, rebuildIntervalMs, rebuildTimer, connVars>>
            /\ Post("updates", batch, << >>)

\* ----------------------------------------------------------- the scheduler
\* The setInterval callback of startRebuildInterval.
RebuildTick ==
    /\ rebuildTimer
    /\ ~InTask
    /\ IF ~dirty
       THEN /\ UNCHANGED <<storeVars, dirty, diffsSinceLastRebuild>>
            /\ Post("tick", << >>, << >>)
       ELSE /\ dirty' = FALSE
            /\ SetStore(buildSnapshotViewSort(Store))
            /\ cachedTickSize' = cachedTickSize
            /\ diffsSinceLastRebuild' =
                 IF ViewIsNull(Store) THEN diffsSinceLastRebuild ELSE 0
            /\ IF ViewIsNull(Store)
               THEN Post("tick", << >>, << >>)
               ELSE PostView("tick", << >>, <<"update">>,
                             buildSnapshotView(Store, cachedTickSize,
                                               diffsSinceLastRebuild,
                                               messagesReceived, rebuildIntervalMs))
    /\ UNCHANGED <<messagesReceived, rebuildIntervalMs, rebuildTimer, connVars>>

\* self.onmessage 'setRebuildInterval': a running timer is restarted.  The
\* first variant starts the timer whether one is running or not, the second
\* also clears the scheduler counters.
SetRebuildInterval_Starts(intervals) ==
    \E intervalMs \in intervals :
        /\ ~InTask
        /\ rebuildIntervalMs' = intervalMs
        /\ rebuildTimer' = TRUE
        /\ UNCHANGED <<storeVars, dirty, diffsSinceLastRebuild, messagesReceived,
                       connVars>>
        /\ Post("setRebuildInterval", intervalMs, << >>)
SetRebuildInterval_Resets(intervals) ==
    \E intervalMs \in intervals :
        /\ ~InTask
        /\ rebuildIntervalMs' = intervalMs
        /\ rebuildTimer' = rebuildTimer
        /\ dirty' = FALSE
        /\ diffsSinceLastRebuild' = 0
        /\ UNCHANGED <<storeVars, messagesReceived, connVars>>
        /\ Post("setRebuildInterval", intervalMs, << >>)
SetRebuildInterval(intervals) ==
    \E intervalMs \in intervals :
        /\ ~InTask
        /\ rebuildIntervalMs' = intervalMs
        /\ rebuildTimer' = rebuildTimer
        /\ UNCHANGED <<storeVars, dirty, diffsSinceLastRebuild, messagesReceived,
                       connVars>>
        /\ Post("setRebuildInterval", intervalMs, << >>)

\* --------------------------------------------------------------- file path
\* handleParseFile.  kind is "invalidJson", "noSnapshot", "noLevels" (flat()
\* throws after orders.clear()) or "snapshot".
ParseFile(files) ==
    \E file \in files :
        /\ ~InTask
        /\ IF file.kind \in {"invalidJson", "noSnapshot"}
           THEN /\ UNCHANGED orders
                /\ Post("parseFile", file, <<"fileError">>)
           ELSE IF file.kind = "noLevels"
           THEN /\ orders' = EmptyMap
                /\ Post("parseFile", file, << >>)
           ELSE /\ orders' = ParseFileLoop([Store EXCEPT !.orders = EmptyMap],
                                           file.levels).orders
                /\ PostView("parseFile", file, <<"fileResult">>,
                            handleParseFileView(OrderList(<< >>, file.levels)))
        /\ UNCHANGED <<byPrice, byPriceKeys, bidMap, askMap, cachedTickSize, dirty,
                       diffsSinceLastRebuild, messagesReceived, rebuildIntervalMs,
                       rebuildTimer, connVars>>

\* ----------------------------------------------------------------- the page
\* The Pause/Resume button of the header, rendered while a streamed book is
\* shown.
TogglePause ==
    /\ ~InTask
    /\ snapshot # NoSnapshot
    /\ mode = "stream"
    /\ paused' = ~paused
    /\ UNCHANGED <<snapshot, mode, tickSize, heatmapData, nearest, client>>
    /\ PageStep("pause", << >>)
\* The page gives OrderBook another tick size: the Tick Size input of
\* Controls, or applyApiTickSize once the asset's szDecimals has arrived.
SetTickSize(ticks) ==
    \E t \in ticks :
        /\ ~InTask
        /\ tickSize' = t
        /\ heatmapData' = IF snapshot = NoSnapshot THEN Heatmap(NoSnapshot)
                          ELSE regroupHeatmap(Heatmap(snapshot), t)
        /\ UNCHANGED <<snapshot, paused, mode, nearest, client>>
        /\ PageStep("tick size", t)
\* onClick of the heatmap, rendered while a book is shown: the order under
\* the cursor is looked up in the regrouped heatmap for the current range.
Click(ranges, fractions) ==
    \E range \in ranges, fx \in fractions, fy \in fractions :
        /\ ~InTask
        /\ snapshot # NoSnapshot
        /\ nearest' = [range |-> range, fx |-> fx, fy |-> fy,
                       found |-> findNearestOrder(heatmapData, range, fx, fy)]
        /\ UNCHANGED <<snapshot, paused, mode, tickSize, heatmapData, client>>
        /\ PageStep("click", << >>)

\* ------------------------------------------------ the snapshot worker client
\* parse(buffer, fileSize, callbacks): the callbacks go into the one pending
\* slot, the buffer is posted to the worker.  A call is named by its number,
\* its buffer by what the worker will make of it.
Parse(kinds) ==
    \E kind \in kinds :
        /\ client.calls < MaxCalls
        /\ client' = [client EXCEPT !.calls = @ + 1,
                                    !.pending = client.calls + 1,
                                    !.inbox = Append(@, [call |-> client.calls + 1,
                                                         kind |-> kind])]
        /\ UNCHANGED <<pageVars, nearest>>
        /\ PageStep("parse", kind)
\* self.onmessage of the snapshot worker: one message back per buffer, or an
\* exception nobody catches when the Snapshot has no levels to flatten.
WorkerReply(kind) ==
    CASE kind = "invalidJson" -> "error"
      [] kind = "noSnapshot" -> "error"
      [] kind = "noLevels" -> "uncaught"
      [] kind = "snapshot" -> "success"
SnapshotWorkerMessage ==
    /\ client.inbox # << >>
    /\ client' = [client EXCEPT !.inbox = Tail(@),
                                !.replies = Append(@, [type |-> WorkerReply(Head(client.inbox).kind),
                                                       of |-> Head(client.inbox).call])]
    /\ UNCHANGED <<pageVars, nearest>>
    /\ PageStep("worker", Head(client.inbox).kind)
\* worker.onmessage and worker.onerror of the client: the callbacks in the
\* pending slot, if any, are taken out and one of them is invoked.
Invoke(cl, cb, of) ==
    [cl EXCEPT !.pending = 0,
               !.invoked = Append(@, [call |-> cl.pending, cb |-> cb, of |-> of])]
ClientOnMessage(cl, reply) ==
    IF cl.pending = 0 THEN cl
    ELSE IF reply.type = "success" THEN Invoke(cl, "onSuccess", reply.of)
    ELSE Invoke(cl, "onError", reply.of)
ClientOnError(cl, reply) ==
    IF cl.pending # 0 THEN Invoke(cl, "onError", reply.of) ELSE cl
ClientEvent ==
    /\ client.replies # << >>
    /\ LET reply == Head(client.replies)
           cl == [client EXCEPT !.replies = Tail(@)]
       IN  client' = IF reply.type = "uncaught" THEN ClientOnError(cl, reply)
                     ELSE ClientOnMessage(cl, reply)
    /\ UNCHANGED <<pageVars, nearest>>
    /\ PageStep("reply", Head(client.replies).type)

\* ------------------------------------------------------------------ inputs
\* The trigger flags of a raw order: a plain order, a trigger order that has
\* triggered, a trigger order that has not.
TriggerKinds == {[isTrigger |-> FALSE, triggerCondition |-> "N/A"],
                 [isTrigger |-> TRUE, triggerCondition |-> "Triggered"],
                 [isTrigger |-> TRUE, triggerCondition |-> "Price above 2"]}
Raws(oids, prices, sizes, stamps, kinds) ==
    {[oid |-> i, side |-> sd, limitPx |-> p, sz |-> z, timestamp |-> t,
      user |-> i,
      isTrigger |-> k.isTrigger, triggerCondition |-> k.triggerCondition] :
        i \in oids, sd \in {"B", "A"}, p \in prices, z \in sizes,
        t \in stamps, k \in kinds}
SeqsUpTo(S, n) == UNION {[1..k -> S] : k \in 0..n}
\* Snapshot payloads: levels of up to n raw orders, or no levels at all.
Snapshots(raws, n) ==
    {[hasLevels |-> TRUE, levels |-> l] : l \in SeqsUpTo(raws, n)}
      \cup {[hasLevels |-> FALSE, levels |-> << >>]}
Files(raws, n) ==
    {[kind |-> "snapshot", levels |-> l] : l \in SeqsUpTo(raws, n)}
      \cup {[kind |-> k, levels |-> << >>] : k \in {"invalidJson", "noSnapshot", "noLevels"}}
\* order_statuses entries: an 'open' carries any raw order; the other
\* statuses are read for their oid only, so they carry a plain stub.
OtherStatuses == REMOVE_STATUSES \cup {"badAloPxRejected", "minTradeNtlRejected"}
Stub(oid) == [oid |-> oid, side |-> "B", limitPx |-> 1, sz |-> 1, timestamp |-> 1,
              user |-> oid,
              isTrigger |-> FALSE, triggerCondition |-> "N/A"]
Entries(raws, oids) ==
    {[status |-> "open", order |-> r] : r \in raws}
      \cup {[status |-> s, order |-> Stub(i)] : s \in OtherStatuses, i \in oids}
Batches(raws, oids, n) == SeqsUpTo(Entries(raws, oids), n) \ {<< >>}

Oids == 1..MaxOid
Prices == 1..MaxPrice
Sizes == 1..MaxSize
Stamps == 1..MaxStamp
Urls == {"ok", "bad"}
Intervals == {50, 100}
Plain == [isTrigger |-> FALSE, triggerCondition |-> "N/A"]

\* ------------------------------------------------------------ specification
\* Spec: every handler of the worker, on a book of one order id at one price
\* (either side, any trigger flags), with snapshots, files and batches of at
\* most one order each.
LinkRaws == Raws({1}, {1}, {1}, {1}, TriggerKinds)
LinkSnapshots == Snapshots(LinkRaws, 1)
LinkBatches == Batches(LinkRaws, {1}, 1)
LinkFiles == Files(LinkRaws, 1)
Next ==
    \/ Connect(Urls)
    \/ Disconnect
    \/ ReconnectFire
    \/ WsOpen
    \/ WsError
    \/ WsClose
    \/ WsGarbage
    \/ WsSnapshot(LinkSnapshots)
    \/ WsUpdates(LinkBatches)
    \/ RebuildTick
    \/ SetRebuildInterval(Intervals)
    \/ ParseFile(LinkFiles)
Spec == Init /\ [][Next]_vars

\* SpecRetry: the adapter under the scheduling the platform provides: an
\* armed reconnect timer fires, and the close event follows the error event
\* in its task.
NextRetry ==
    \/ Connect(Urls)
    \/ Disconnect
    \/ ReconnectFire
    \/ WsOpen
    \/ WsError
    \/ WsClose
    \/ WsGarbage
    \/ SetRebuildInterval(Intervals)
SpecRetry ==
    /\ Init /\ [][NextRetry]_vars
    /\ WF_vars(ReconnectFire)
    /\ WF_vars(InTask /\ WsClose)

\* SpecShown: the stream of one connection at a time under the scheduling of
\* setInterval: a running rebuild interval keeps ticking.
NextShown ==
    \/ Connect({"ok"})
    \/ Disconnect
    \/ WsOpen
    \/ WsClose
    \/ WsSnapshot(LinkSnapshots)
    \/ WsUpdates(LinkBatches)
    \/ RebuildTick
SpecShown ==
    /\ Init /\ [][NextShown]_vars
    /\ WF_vars(RebuildTick)

\* SpecView: the streaming views of a book of MaxOid ids at MaxPrice prices
\* with timestamps up to MaxStamp (all of size 1): snapshots of up to
\* MaxLevels orders, then single-entry batches and rebuild ticks.
ViewRaws == Raws(Oids, Prices, {1}, Stamps, {Plain})
ViewSnapshots == Snapshots(ViewRaws, MaxLevels)
ViewBatches == Batches(ViewRaws, Oids, 1)
NextView ==
    \/ Connect({"ok"})
    \/ WsOpen
    \/ WsSnapshot(ViewSnapshots)
    \/ WsUpdates(ViewBatches)
    \/ RebuildTick
SpecView == Init /\ [][NextView]_vars

\* SpecCancel: the adapter and the stream, with the late events of cancelled
\* transports.
NextCancel ==
    \/ Connect(Urls)
    \/ Disconnect
    \/ ReconnectFire
    \/ WsOpen
    \/ WsError
    \/ WsClose
    \/ WsSnapshot(LinkSnapshots)
    \/ WsUpdates(LinkBatches)
    \/ RebuildTick
    \/ StaleEvent(EventKinds)
SpecCancel == Init /\ [][NextCancel]_vars

\* SpecStore: the streaming order store on a book of MaxOid ids, MaxPrice
\* prices and MaxSize sizes, over a transport that connects and stays open:
\* snapshots of up to MaxLevels plain orders, then single-entry batches.
BookRaws == Raws(Oids, Prices, Sizes, {1}, {Plain})
                \cup Raws({1}, {1}, {1}, {1}, TriggerKinds)
BookSnapshots == Snapshots(Raws(Oids, Prices, Sizes, {1}, {Plain}), MaxLevels)
BookBatches == Batches(BookRaws, Oids, 1)
NextStore ==
    \/ Connect({"ok"})
    \/ Disconnect
    \/ WsOpen
    \/ WsSnapshot(BookSnapshots)
    \/ WsUpdates(BookBatches)
    \/ RebuildTick
SpecStore == Init /\ [][NextStore]_vars

\* SpecPage: the page over one stream with automatic reconnects: the user
\* connects, pauses and resumes while snapshots, updates and rebuild ticks
\* arrive.
NextPage ==
    \/ Connect({"ok"})
    \/ ReconnectFire
    \/ WsOpen
    \/ WsClose
    \/ WsSnapshot(LinkSnapshots)
    \/ WsUpdates(LinkBatches)
    \/ RebuildTick
    \/ TogglePause
SpecPage == Init /\ [][NextPage]_vars

\* SpecRegroup: the page regrouping a loaded book: one file of up to MaxLevels
\* plain orders (the order at level i under id i) at prices up to MaxTick,
\* loaded into the empty page, then tick sizes up to MaxTick.
Ticks == 1..MaxTick
RegroupLevels ==
    {l \in SeqsUpTo(Raws(Oids, Ticks, Sizes, Stamps, {Plain}), MaxLevels) :
        \A i \in 1..Len(l) : l[i].oid = i}
RegroupFiles == {[kind |-> "snapshot", levels |-> l] : l \in RegroupLevels}
NextRegroup ==
    \/ snapshot = NoSnapshot /\ ParseFile(RegroupFiles)
    \/ SetTickSize(Ticks)
SpecRegroup == Init /\ [][NextRegroup]_vars

\* SpecBatch: the stream of one connection with batches of up to two entries
\* between snapshots of one order and rebuild ticks.
BatchRaws == Raws(Oids, {1}, {1}, {1}, {Plain})
BatchSnapshots == Snapshots(Raws({1}, {1}, {1}, {1}, {Plain}), 1)
BatchBatches == Batches(BatchRaws, Oids, 2)
NextBatch ==
    \/ Connect({"ok"})
    \/ WsOpen
    \/ WsSnapshot(BatchSnapshots)
    \/ WsUpdates(BatchBatches)
    \/ RebuildTick
SpecBatch == Init /\ [][NextBatch]_vars

\* SpecZero: the stream of one connection whose orders may have size 0.
ZeroRaws == Raws({1}, {1}, 0..1, {1}, {Plain})
ZeroSnapshots == Snapshots(ZeroRaws, 1)
ZeroBatches == Batches(ZeroRaws, {1}, 1)
NextZero ==
    \/ Connect({"ok"})
    \/ WsOpen
    \/ WsSnapshot(ZeroSnapshots)
    \/ WsUpdates(ZeroBatches)
    \/ RebuildTick
SpecZero == Init /\ [][NextZero]_vars

\* SpecTick: the stream of one connection over a book of bids at prices up to
\* MaxTick, so that a snapshot can fix a tick size larger than 1, with loads
\* of a file of one order in between.
TickRaws == {r \in Raws(Oids, Ticks, {1}, {1}, {Plain}) : r.side = "B"}
TickSnapshots == Snapshots(TickRaws, MaxLevels)
TickBatches == Batches(TickRaws, Oids, 1)
TickFiles == {[kind |-> "snapshot", levels |-> <<r>>] : r \in {x \in TickRaws : x.oid = 1 /\ x.limitPx = 1}}
NextTick ==
    \/ Connect({"ok"})
    \/ Disconnect
    \/ WsOpen
    \/ WsSnapshot(TickSnapshots)
    \/ WsUpdates(TickBatches)
    \/ RebuildTick
    \/ SetRebuildInterval(Intervals)
    \/ ParseFile(TickFiles)
SpecTick == Init /\ [][NextTick]_vars

\* SpecLocate: clicks on the heatmap of a loaded book: one file as in
\* SpecRegroup, then clicks at the cursor fractions 0, 1/CursorDen, .. 1 under
\* ranges that are wide, narrow or empty.
Fractions == 0..CursorDen
Ranges == {[priceMin |-> p[1], priceMax |-> p[2], yMin |-> y[1], yMax |-> y[2]] :
             p \in {<<0, 4>>, <<1, 2>>, <<2, 2>>}, y \in {<<0, 4>>, <<0, 1>>, <<0, 0>>}}
NextLocate ==
    \/ snapshot = NoSnapshot /\ ParseFile(RegroupFiles)
    \/ Click(Ranges, Fractions)
SpecLocate == Init /\ [][NextLocate]_vars

\* SpecClient: up to MaxCalls parse calls on one worker client, with buffers
\* of every kind, each made at any time before or after the earlier results
\* have arrived.
BufferKinds == {"invalidJson", "noSnapshot", "noLevels", "snapshot"}
NextClient ==
    \/ Parse(BufferKinds)
    \/ SnapshotWorkerMessage
    \/ ClientEvent
SpecClient == Init /\ [][NextClient]_vars

\* ------------------------------------------------------------- vocabulary
RECURSIVE SumSizes(_, _)
SumSizes(os, keys) ==
    IF keys = {} THEN 0
    ELSE LET k == CHOOSE x \in keys : TRUE
         IN  os[k].size + SumSizes(os, keys \ {k})
\* The total size of the live orders at a price on a side.
LiveSize(p, sd) ==
    SumSizes(orders, {k \in DOMAIN orders : orders[k].price = p /\ orders[k].side = sd})
Aggregate(p, sd) == MapGet(IF sd = 0 THEN bidMap ELSE askMap, p, 0)
AggregateNext(p, sd) == MapGet(IF sd = 0 THEN bidMap' ELSE askMap', p, 0)
KnownPrices == DOMAIN bidMap \cup DOMAIN askMap \cup DOMAIN byPrice
                 \cup {orders[k].price : k \in DOMAIN orders}
\* How many times the object with ref r is a member of the group at price p.
Occurrences(bp, p, r) ==
    IF p \in DOMAIN bp THEN Cardinality({i \in 1..Len(bp[p]) : bp[p][i].ref = r}) ELSE 0
StoreEmpty ==
    /\ DOMAIN orders = {} /\ DOMAIN byPrice = {}
    /\ DOMAIN bidMap = {} /\ DOMAIN askMap = {}
Untriggered(raw) == raw.isTrigger /\ raw.triggerCondition # "Triggered"
Removal(status) == status \in {"canceled", "filled", "marginCanceled", "reduceOnlyCanceled"}
SideOf(raw) == IF raw.side = "B" THEN 0 ELSE 1

\* ------------------------------------------------------------------ claims
\* C1 - Aggregate consistency: in every reachable state, for every price and
\* side, the bidMap / askMap entry (absent counted as 0) equals the sum of
\* the sizes of the orders of the orders map with that price and side.
C1_AggregateConsistency ==
    \A p \in KnownPrices : \A sd \in {0, 1} : Aggregate(p, sd) = LiveSize(p, sd)

\* C2 - Membership: in every reachable state each order of the orders map is
\* exactly once a member of the group of its price and of no other group, and
\* every member of every group is the order stored under its id.
C2_Membership ==
    /\ \A k \in DOMAIN orders : \A p \in KnownPrices :
         Occurrences(byPrice, p, orders[k].ref) = IF p = orders[k].price THEN 1 ELSE 0
    /\ \A m \in Members(byPrice) : m.oid \in DOMAIN orders /\ orders[m.oid] = m
    /\ MemberCount(byPrice) = Cardinality(DOMAIN orders)

\* C3 - No-op removal: a batch whose entries all carry a removal status for an
\* order id that is not in the store leaves the orders map, every group and
\* both aggregate maps unchanged and counts no applied diff.
C3_NoOpRemoval ==
    [][(/\ lastOp' = "updates"
        /\ \A i \in 1..Len(lastIn') :
             /\ Removal(lastIn'[i].status)
             /\ lastIn'[i].order.oid \notin DOMAIN orders)
       => /\ orders' = orders
          /\ byPrice' = byPrice
          /\ bidMap' = bidMap
          /\ askMap' = askMap
          /\ diffsSinceLastRebuild' = diffsSinceLastRebuild]_vars
\* A removal for an absent id has just been handled on a non-empty store: the
\* batch is the second message after a connect and no diff has been counted.
C3_Witness ==
    /\ lastOp = "updates"
    /\ Len(lastIn) = 1
    /\ Removal(lastIn[1].status)
    /\ lastIn[1].order.oid \notin DOMAIN orders
    /\ DOMAIN orders # {}
    /\ messagesReceived = 2
    /\ diffsSinceLastRebuild = 0

\* C4 - Replace on re-open: an admitted 'open' entry for an id that is in the
\* store leaves the other orders alone and stores a new order under that id;
\* the new order is a member of the group of its price, once, and of no other
\* group; the old order is a member of no group; the aggregate of the old
\* (price, side) has lost the old size (the entry is deleted if nothing is
\* left) and the aggregate of the new (price, side) has gained the new size.
C4_Expected(p, sd, old, new) ==
    LET a == Aggregate(p, sd)
        left == IF p = old.price /\ sd = old.side
                THEN (IF a - old.size <= 0 THEN 0 ELSE a - old.size)
                ELSE a
    IN  IF p = new.price /\ sd = new.side THEN left + new.size ELSE left
C4_ReplaceOnReopen ==
    [][(/\ lastOp' = "updates"
        /\ Len(lastIn') = 1
        /\ lastIn'[1].status = "open"
        /\ ~Untriggered(lastIn'[1].order)
        /\ lastIn'[1].order.oid \in DOMAIN orders)
       => LET raw == lastIn'[1].order
              old == orders[raw.oid]
              new == orders'[raw.oid]
          IN  /\ DOMAIN orders' = DOMAIN orders
              /\ \A k \in DOMAIN orders \ {raw.oid} : orders'[k] = orders[k]
              /\ new.ref # old.ref
              /\ new.price = raw.limitPx /\ new.size = raw.sz /\ new.side = SideOf(raw)
              /\ \A p \in Prices :
                   /\ Occurrences(byPrice', p, new.ref) = IF p = new.price THEN 1 ELSE 0
                   /\ Occurrences(byPrice', p, old.ref) = 0
                   /\ \A sd \in {0, 1} :
                        /\ AggregateNext(p, sd) = C4_Expected(p, sd, old, new)
                        /\ (C4_Expected(p, sd, old, new) = 0 /\ Aggregate(p, sd) > 0)
                             => p \notin DOMAIN (IF sd = 0 THEN bidMap' ELSE askMap')]_vars
\* Two applied diffs in a session of two messages, the second an 'open', and
\* one order in the store: an 'open' followed by an 'open' for the same id.
C4_Witness ==
    /\ lastOp = "updates"
    /\ Len(lastIn) = 1
    /\ lastIn[1].status = "open"
    /\ messagesReceived = 2
    /\ diffsSinceLastRebuild = 2
    /\ DOMAIN orders = {lastIn[1].order.oid}

\* C5 - Status classification: an entry with status 'open' stores the order
\* under its id, an entry with status canceled, filled, marginCanceled or
\* reduceOnlyCanceled leaves no order under its id, and an entry with any
\* other status changes neither the orders map, the groups, the aggregates
\* nor the count of applied diffs; the orders of other ids are untouched.
C5_StatusClassification ==
    [][(lastOp' = "updates" /\ Len(lastIn') = 1)
       => LET status == lastIn'[1].status
              raw == lastIn'[1].order
              others == DOMAIN orders \ {raw.oid}
          IN  /\ DOMAIN orders' \ {raw.oid} = others
              /\ \A k \in others : orders'[k] = orders[k]
              /\ (status = "open" /\ ~Untriggered(raw))
                   => /\ raw.oid \in DOMAIN orders'
                      /\ orders'[raw.oid].price = raw.limitPx
                      /\ orders'[raw.oid].size = raw.sz
                      /\ orders'[raw.oid].side = SideOf(raw)
                      /\ Occurrences(byPrice', raw.limitPx, orders'[raw.oid].ref) = 1
                      /\ diffsSinceLastRebuild' = diffsSinceLastRebuild + 1
              /\ Removal(status)
                   => /\ raw.oid \notin DOMAIN orders'
                      /\ raw.oid \in DOMAIN orders
                           => /\ \A p \in Prices :
                                   Occurrences(byPrice', p, orders[raw.oid].ref) = 0
                              /\ diffsSinceLastRebuild' = diffsSinceLastRebuild + 1
              /\ (status # "open" /\ ~Removal(status))
                   => /\ orders' = orders
                      /\ byPrice' = byPrice
                      /\ bidMap' = bidMap
                      /\ askMap' = askMap
                      /\ diffsSinceLastRebuild' = diffsSinceLastRebuild]_vars
\* A rejection for the id of a live order has just been handled.
C5_Witness ==
    /\ lastOp = "updates"
    /\ Len(lastIn) = 1
    /\ lastIn[1].status = "badAloPxRejected"
    /\ lastIn[1].order.oid \in DOMAIN orders

\* C6 - Trigger-order exclusion: no order delivered as an untriggered trigger
\* order is in the orders map or in a group; after a Snapshot or an offline
\* load the ids in the orders map are exactly the ids of the delivered orders
\* that are not untriggered trigger orders (a 'Triggered' one counts like a
\* plain one), and an 'open' for a 'Triggered' or plain order is stored.
C6_Admitted(levels) == {levels[i].oid : i \in {j \in 1..Len(levels) : ~Untriggered(levels[j])}}
C6_TriggerExclusion ==
    /\ \A k \in DOMAIN orders : ~orders[k].untriggered
    /\ \A m \in Members(byPrice) : ~m.untriggered
    /\ (lastOp = "snapshot" /\ lastIn.hasLevels)
         => /\ DOMAIN orders = C6_Admitted(lastIn.levels)
            /\ {m.oid : m \in Members(byPrice)} = C6_Admitted(lastIn.levels)
    /\ (lastOp = "parseFile" /\ lastIn.kind = "snapshot")
         => DOMAIN orders = C6_Admitted(lastIn.levels)
    /\ (lastOp = "updates" /\ lastIn[Len(lastIn)].status = "open"
          /\ ~Untriggered(lastIn[Len(lastIn)].order))
         => /\ lastIn[Len(lastIn)].order.oid \in DOMAIN orders
            /\ orders[lastIn[Len(lastIn)].order.oid].side = SideOf(lastIn[Len(lastIn)].order)
\* An 'open' for an untriggered ask has just been handled under the id of a
\* stored bid: the bid is still the order in the book.
C6_Witness ==
    /\ lastOp = "updates"
    /\ lastIn[1].status = "open"
    /\ Untriggered(lastIn[1].order) /\ lastIn[1].order.side = "A"
    /\ 1 \in DOMAIN orders /\ orders[1].side = 0
    /\ Occurrences(byPrice, 1, orders[1].ref) = 1

\* C7 - Status ordering: 'connecting' opens every connection attempt and is
\* posted by nothing else; 'connected' comes right after 'connecting' and is
\* followed at once by 'subscribed', and 'subscribed' comes only so;
\* 'error' comes only after 'connecting' or 'subscribed', 'disconnected' only
\* after 'connecting', 'subscribed' or 'error'; 'idle' is posted only by the
\* Disconnect handler.
C7_Trail == <<prevStatus>> \o out
C7_StatusOrdering ==
    /\ lastOp \in {"connect", "reconnect"} <=> (out # << >> /\ out[1] = "connecting")
    /\ \A i \in 1..Len(out) : out[i] = "connecting" => i = 1
    /\ lastOp = "disconnect" <=> (\E i \in 1..Len(out) : out[i] = "idle")
    /\ \A i \in 2..Len(C7_Trail) :
         /\ C7_Trail[i] = "connected"
              => /\ C7_Trail[i - 1] = "connecting"
                 /\ i < Len(C7_Trail) /\ C7_Trail[i + 1] = "subscribed"
         /\ C7_Trail[i] = "subscribed" => C7_Trail[i - 1] = "connected"
         /\ C7_Trail[i] = "error" => C7_Trail[i - 1] \in {"connecting", "subscribed"}
         /\ C7_Trail[i] = "disconnected"
              => C7_Trail[i - 1] \in {"connecting", "subscribed", "error"}
\* A transport has just opened.
C7_Witness ==
    /\ lastOp = "open"
    /\ prevStatus = "connecting"
    /\ out = <<"connected", "subscribed">>

\* C8 - Backoff schedule: the reconnect timer armed after the k-th call of
\* scheduleReconnect since the last open (k = 0 for the first) waits
\* min(1000 * 2^k, 30000) ms, which is at least 1000 and at most 30000; an
\* open sets k back to 0.
C8_BackoffSchedule ==
    /\ reconnectTimer
         => /\ failures >= 1
            /\ timerDelay = Min(1000 * 2 ^ (failures - 1), 30000)
            /\ timerDelay >= 1000 /\ timerDelay <= 30000
    /\ reconnectDelay = Min(1000 * 2 ^ failures, 30000)
    /\ lastOp = "open" => failures = 0
\* The sixth failure in a row is waiting for its retry: 32000 is capped.
C8_Witness == reconnectTimer /\ failures = 6 /\ timerDelay = 30000

\* C9 - Disconnect clears all session state: right after a Disconnect the
\* store is empty, the tick size is 1, the dirty flag is clear and the next
\* reconnect delay is 1000 ms.
C9_DisconnectClears ==
    lastOp = "disconnect"
      => /\ StoreEmpty
         /\ cachedTickSize = 1
         /\ ~dirty
         /\ reconnectDelay = 1000
\* C10 - Disconnect during backoff: a Disconnect handled while the reconnect
\* timer is pending cancels the timer and empties the store; from then on,
\* until a Connect, no handler but Disconnect posts a status, no transport
\* exists and no reconnect timer is pending.
C10_DisconnectDuringBackoff ==
    [][/\ (lastOp' = "disconnect" /\ reconnectTimer)
            => ~reconnectTimer' /\ StoreEmpty'
       /\ (CurStatus = "idle" /\ lastOp' # "connect")
            => /\ ws' = "null"
               /\ ~reconnectTimer'
               /\ lastOp' # "reconnect"
               /\ lastOp' # "disconnect" => StatusesOf(out') = << >>]_vars
\* A Disconnect has just been handled after a close armed the timer.
C10_Witness ==
    /\ lastOp = "disconnect"
    /\ prevStatus = "disconnected"
    /\ failures >= 1
    /\ ~reconnectTimer

\* C11 - Cancellation: an open, message, close or error event of a cancelled
\* transport (one closed by Disconnect, or replaced by a Connect or a
\* reconnect attempt) changes neither the orders map, the groups, the
\* aggregates, the dirty flag, the counters nor the timers, and posts no
\* message.
C11_Cancellation ==
    [][lastOp' = "stale" =>
         /\ UNCHANGED <<storeVars, schedVars, connVars>>
         /\ out' = << >>
         /\ view' = NoView]_vars
\* A close event of the transport a reconnect attempt replaced has been
\* delivered while the new transport streams a non-empty book.
C11_Witness ==
    /\ lastOp = "stale" /\ lastIn = "close"
    /\ ws = "open" /\ rebuildTimer /\ dirty
    /\ DOMAIN orders # {}
    /\ failures = 0

\* C12 - Indefinite retry: once the adapter has posted 'disconnected' or
\* 'error' (a connect failure, a transport close or a transport error),
\* after any number k of consecutive failures a new connection attempt
\* follows (one that opens a transport or fails in turn), unless the caller
\* disconnects.
C12_Entered(k) ==
    /\ failures = k
    /\ \/ lastOp = "error" /\ k + 1 < MaxFailures
       \/ lastOp = "close" /\ k < MaxFailures
       \/ lastOp \in {"connect", "reconnect"} /\ ws = "null" /\ k < MaxFailures
C12_Attempt(k) ==
    /\ lastOp \in {"connect", "reconnect"}
    /\ out[1] = "connecting"
    /\ failures # k \/ ws = "connecting"
C12_IndefiniteRetry ==
    \A k \in 0..MaxFailures :
        C12_Entered(k) ~> (C12_Attempt(k) \/ lastOp = "disconnect")
\* The reconnect timer has fired after four consecutive failures and the
\* attempt has failed in turn.
C12_Witness ==
    /\ lastOp = "reconnect"
    /\ failures = 5
    /\ prevStatus = "error"
    /\ out = <<"connecting", "error">>

\* C13 - Rebuild tick: a tick of the rebuild timer posts a view if and only
\* if dirty was set.  When it was set the tick posts exactly one 'update',
\* built from the store as it is (one row per stored order), carrying the
\* diffs counted since the last view; afterwards dirty is clear and the diff
\* counter is 0.  When it was not set the tick changes nothing and posts
\* nothing.
C13_RebuildTick ==
    [][lastOp' = "tick" =>
         IF dirty
         THEN /\ out' = <<"update">>
              /\ view'.count = Cardinality(DOMAIN orders)
              /\ view'.diffsApplied = diffsSinceLastRebuild
              /\ ~dirty'
              /\ diffsSinceLastRebuild' = 0
              /\ orders' = orders
         ELSE /\ out' = << >>
              /\ UNCHANGED <<storeVars, schedVars, connVars>>]_vars

\* C14 - Every store change is eventually shown: after an Updates batch has
\* changed the store of a subscribed adapter (dirty is set), either the
\* connection ends (close, Disconnect, a new Connect) or a view is posted.
C14_EventuallyShown ==
    (lastOp = "updates" /\ dirty /\ ws = "open")
      ~> (\/ ws # "open"
          \/ lastOp \in {"tick", "snapshot"} /\ view # NoView)

C16_SnapshotFirst ==
    "update" \in sinceSubscribed => "snapshot" \in sinceSubscribed

\* What identifies an order in a heatmap row: price, side, size, timestamp.
RowKey(r) == <<r.price, r.side, r.size, r.timestamp>>
\* The view a streaming handler has just posted.
StreamView == lastOp \in {"snapshot", "tick"} /\ view # NoView

\* C17 - Heatmap rows are exactly the live orders: a view posted on the
\* streaming path has count equal to the number of stored orders, every row
\* written, and as many rows of each (price, side, size, timestamp) as there
\* are stored orders with these values.
C17_RowsAreLiveOrders ==
    StreamView =>
        /\ view.count = Cardinality(DOMAIN orders)
        /\ Len(view.rows) = view.count
        /\ \A i \in 1..Len(view.rows) : view.rows[i].written
        /\ \A i \in 1..Len(view.rows) :
              Cardinality({j \in 1..Len(view.rows) : RowKey(view.rows[j]) = RowKey(view.rows[i])})
                = Cardinality({k \in DOMAIN orders : RowKey(orders[k]) = RowKey(view.rows[i])})

\* C18 - Stacking offsets: in every posted heatmap the yOffset of a row is
\* the sum of the sizes of the rows of the same price and the same side
\* that come before it (the rows of a group come in ascending timestamp,
\* ties in arrival order), so two spans of one (price, side) never overlap.
C18_StackingOffsets ==
    view # NoView =>
        \A i \in 1..Len(view.rows) :
            view.rows[i].written =>
                view.rows[i].yOffset =
                    SumSizes(view.rows,
                             {j \in 1..(i - 1) :
                                /\ view.rows[j].written
                                /\ view.rows[j].price = view.rows[i].price
                                /\ view.rows[j].side = view.rows[i].side})

\* C19 - Global rank brightness: in every posted view of n >= 2 stored
\* orders, an order whose timestamp no other stored order shares has a row
\* whose brightness is r/(n-1), r being the number of stored orders older
\* than it.
C19_GlobalRank ==
    (view # NoView /\ Cardinality(DOMAIN orders) >= 2) =>
        LET n == Cardinality(DOMAIN orders)
        IN  \A k \in DOMAIN orders :
                (\A m \in DOMAIN orders \ {k} : orders[m].timestamp # orders[k].timestamp)
                  => LET r == Cardinality({m \in DOMAIN orders :
                                            orders[m].timestamp < orders[k].timestamp})
                     IN  \E i \in 1..Len(view.rows) :
                           /\ RowKey(view.rows[i]) = RowKey(orders[k])
                           /\ view.rows[i].brightness.num * (n - 1)
                                = r * view.rows[i].brightness.den

\* C20 - Brightness bounds: in every posted view of a non-empty store every
\* brightness lies in [0, 1], and when exactly one order is stored the
\* brightness of its row is 1/2.
C20_BrightnessBounds ==
    (view # NoView /\ DOMAIN orders # {}) =>
        /\ \A i \in 1..Len(view.rows) :
              /\ view.rows[i].brightness.den > 0
              /\ 0 <= view.rows[i].brightness.num
              /\ view.rows[i].brightness.num <= view.rows[i].brightness.den
        /\ Cardinality(DOMAIN orders) = 1 =>
              \A i \in 1..Len(view.rows) :
                  2 * view.rows[i].brightness.num = view.rows[i].brightness.den

\* C21 - Build-mode equivalence: the view the streaming path posts for a
\* Snapshot equals, in the depth sides and in every heatmap field, the view
\* the offline path builds for a file that carries the same orders (a set
\* of orders: no two under one id).
C21_BuildModeEquivalence ==
    (/\ lastOp = "snapshot" /\ view # NoView
     /\ \A i, j \in 1..Len(lastIn.levels) :
           lastIn.levels[i].oid = lastIn.levels[j].oid => i = j) =>
        Shape(view) = Shape(handleParseFileView(OrderList(<< >>, lastIn.levels)))

\* C22 - Offline load does not touch the session store: handling a file
\* load leaves the orders map, the groups, the aggregates, the cached tick
\* size, the dirty flag, the counters, the timers and the connection as
\* they were.
C22_OfflineLoadFrame ==
    [][lastOp' = "parseFile" => UNCHANGED <<storeVars, schedVars, connVars>>]_vars

\* C23 - Offline load outcome: a file load posts exactly one message,
\* 'fileResult' for a well-formed snapshot and 'fileError' for an
\* unparseable body, a missing Snapshot object or a Snapshot without levels;
\* a failed load changes no worker state.
C23_OfflineLoadOutcome ==
    [][lastOp' = "parseFile" =>
         IF lastIn'.kind = "snapshot"
         THEN out' = <<"fileResult">>
         ELSE /\ out' = <<"fileError">>
              /\ UNCHANGED <<storeVars, schedVars, connVars>>]_vars

\* C24 - Malformed stream message is dropped: a transport message with an
\* unparseable body, or with a Snapshot that has no levels, leaves the
\* orders map, the groups, the aggregates, the cached tick size and the
\* dirty flag as they were and posts no view.
C24_MalformedDropped ==
    [][(\/ lastOp' = "garbage"
        \/ lastOp' = "snapshot" /\ ~lastIn'.hasLevels)
       => /\ UNCHANGED <<storeVars, dirty>>
          /\ out' = << >>]_vars

\* A depth side lists each price once, best price first, with running sums.
DepthSideOk(side, descending) ==
    /\ \A i \in 1..(Len(side) - 1) :
          IF descending THEN side[i].price > side[i + 1].price
          ELSE side[i].price < side[i + 1].price
    /\ \A i \in 1..Len(side) :
          side[i].cumSize = SumSizes(side, 1..i)

\* C25 - Depth view: in every posted view the bid side lists each occupied
\* bid price once in strictly descending order and the ask side each
\* occupied ask price once in strictly ascending order, each with the
\* aggregate size of its bucket, and cumSize is the running sum of the sizes
\* from the best price on.  The buckets are those of bidMap and askMap on
\* the streaming path and those of the loaded orders on the offline path.
C25_DepthView ==
    view # NoView =>
        /\ DepthSideOk(view.bids, TRUE)
        /\ DepthSideOk(view.asks, FALSE)
        /\ StreamView =>
              /\ {view.bids[i].price : i \in 1..Len(view.bids)} = DOMAIN bidMap
              /\ {view.asks[i].price : i \in 1..Len(view.asks)} = DOMAIN askMap
              /\ \A i \in 1..Len(view.bids) : view.bids[i].size = bidMap[view.bids[i].price]
              /\ \A i \in 1..Len(view.asks) : view.asks[i].size = askMap[view.asks[i].price]
        /\ lastOp = "parseFile" =>
              /\ {view.bids[i].price : i \in 1..Len(view.bids)}
                    = {orders[k].price : k \in {x \in DOMAIN orders : orders[x].side = 0}}
              /\ {view.asks[i].price : i \in 1..Len(view.asks)}
                    = {orders[k].price : k \in {x \in DOMAIN orders : orders[x].side = 1}}
              /\ \A i \in 1..Len(view.bids) : view.bids[i].size = LiveSize(view.bids[i].price, 0)
              /\ \A i \in 1..Len(view.asks) : view.asks[i].size = LiveSize(view.asks[i].price, 1)
\* A view with two bid levels: price 2 with size 2 first, then price 1 with
\* size 1 and cumulative size 3.
C25_Witness ==
    /\ StreamView
    /\ view.bids = <<[price |-> 2, size |-> 2, cumSize |-> 2],
                     [price |-> 1, size |-> 1, cumSize |-> 3]>>
    /\ view.asks = << >>

\* C26 - Regroup idempotence: regroupHeatmap returns the heatmap it is given
\* whenever the tick size asked for is at most the heatmap's own, and
\* regrouping what OrderBook shows to its own tick size changes nothing.
C26_RegroupIdempotence ==
    snapshot # NoSnapshot =>
        /\ tickSize <= snapshot.tickSize => heatmapData = Heatmap(snapshot)
        /\ regroupHeatmap(Heatmap(snapshot), snapshot.tickSize) = Heatmap(snapshot)
        /\ regroupHeatmap(heatmapData, heatmapData.tickSize) = heatmapData
\* A book of two orders at the prices 1 and 3, whose tick size is 2, asked
\* for at tick size 1.
C26_Witness ==
    /\ lastOp = "tick size"
    /\ snapshot.count = 2
    /\ snapshot.tickSize = 2
    /\ tickSize = 1
    /\ heatmapData = Heatmap(snapshot)

\* The rows of a heatmap that carry the given order-level values.
OrderValues(r) == <<r.size, r.side, r.timestamp, r.brightness, r.user>>
RowsWith(rows, values) == {i \in 1..Len(rows) : OrderValues(rows[i]) = values}

\* C27 - Regroup count preservation: the regrouped heatmap has the count of
\* the heatmap it was made from and as many rows, and every combination of
\* (size, side, timestamp, brightness, user) is carried by as many rows
\* after regrouping as before: no order is dropped, duplicated or merged.
\* This holds for every tick size, the multiples of the view's own included.
C27_RegroupCountPreservation ==
    snapshot # NoSnapshot =>
        /\ heatmapData.count = snapshot.count
        /\ Len(heatmapData.rows) = Len(snapshot.rows)
        /\ \A i \in 1..Len(snapshot.rows) :
              Cardinality(RowsWith(heatmapData.rows, OrderValues(snapshot.rows[i])))
                = Cardinality(RowsWith(snapshot.rows, OrderValues(snapshot.rows[i])))
\* Two asks of one timestamp at the prices 1 and 2, regrouped to twice the
\* native tick size: both rows land in the column at 2.
C27_Witness ==
    /\ lastOp = "tick size"
    /\ snapshot.tickSize = 1
    /\ tickSize = 2
    /\ snapshot.count = 2
    /\ \A i \in 1..2 : snapshot.rows[i].side = 1 /\ snapshot.rows[i].timestamp = 1
    /\ snapshot.rows[1].price # snapshot.rows[2].price
    /\ \A i \in 1..2 : heatmapData.rows[i].price = 2

\* C28 - Side separation under regrouping: once the heatmap is regrouped to
\* a tick size larger than its own, no price is the price of both a bid row
\* and an ask row.
C28_SideSeparation ==
    (snapshot # NoSnapshot /\ tickSize > snapshot.tickSize) =>
        \A i, j \in 1..Len(heatmapData.rows) :
            heatmapData.rows[i].side # heatmapData.rows[j].side
              => heatmapData.rows[i].price # heatmapData.rows[j].price

\* C29 - While paused the displayed book is frozen: a step that starts and
\* ends with the page paused leaves the snapshot the page shows as it was,
\* whatever the worker posts in it.
C29_PausedFrozen ==
    [][(paused /\ paused') => snapshot' = snapshot]_vars

HasError(msgs) == \E i \in 1..Len(msgs) : msgs[i] = "error"

\* C30 as stated - Close or error stops the scheduler and schedules a
\* reconnect: right after the handler of a transport close event, and
\* likewise right after the handler of a transport error event, the rebuild
\* timer is stopped, the status posted is 'disconnected' or 'error', and a
\* reconnect timer is pending.
C30_AsStated ==
    [][lastOp' \in {"close", "error"} =>
         /\ rebuildTimer' = FALSE
         /\ out' \in {<<"disconnected">>, <<"error">>}
         /\ reconnectTimer']_vars

\* C30 - Close or error stops the scheduler, and the close schedules the
\* reconnect: right after the handler of a transport close event the rebuild
\* timer is stopped, the status posted is 'disconnected' and the one
\* reconnect timer is pending, armed with the delay of before the step;
\* right after the handler of a transport error event the rebuild timer is
\* stopped, the status posted is 'error', no reconnect timer is pending yet
\* and the close event of the same transport is still to come; a connection
\* attempt that throws posts 'error' and leaves the rebuild timer stopped
\* and the reconnect timer pending.
C30_CloseOrError ==
    [][/\ lastOp' = "close" =>
            /\ rebuildTimer' = FALSE
            /\ out' = <<"disconnected">>
            /\ reconnectTimer'
            /\ timerDelay' = reconnectDelay
       /\ lastOp' = "error" =>
            /\ rebuildTimer' = FALSE
            /\ out' = <<"error">>
            /\ ~reconnectTimer'
            /\ InTask'
       /\ (lastOp' \in {"connect", "reconnect"} /\ HasError(out')) =>
            /\ rebuildTimer' = FALSE
            /\ reconnectTimer'
            /\ timerDelay' = reconnectDelay]_vars
\* The close event that follows an error event on a subscribed transport
\* has been handled: the scheduler is stopped and the reconnect timer armed.
C30_Witness ==
    /\ lastOp = "close"
    /\ prevStatus = "error"
    /\ out = <<"disconnected">>
    /\ ~rebuildTimer
    /\ reconnectTimer

\* The store and counter after the first k entries of a batch, one by one.
RECURSIVE EntriesApplied(_, _, _)
EntriesApplied(acc, entries, k) ==
    IF k = 0 THEN acc
    ELSE ApplyEntry(EntriesApplied(acc, entries, k - 1), entries[k])

KeptLevels(levels) == {i \in 1..Len(levels) : ~Untriggered(levels[i])}
Carries(raw, o) ==
    /\ o.oid = raw.oid /\ o.side = SideOf(raw) /\ o.price = raw.limitPx
    /\ o.size = raw.sz /\ o.timestamp = raw.timestamp
RECURSIVE CarriedSize(_, _, _, _)
CarriedSize(levels, is, p, sd) ==
    IF is = {} THEN 0
    ELSE LET i == CHOOSE x \in is : TRUE
         IN  (IF levels[i].limitPx = p /\ SideOf(levels[i]) = sd THEN levels[i].sz ELSE 0)
               + CarriedSize(levels, is \ {i}, p, sd)

\* C32 - Snapshot resets the store: right after the handler of a Snapshot
\* that carries levels, the orders map holds exactly the ids of the orders
\* of the snapshot that are not excluded, each with the values the snapshot
\* gives it last; the groups hold one member per such order of the snapshot
\* and nothing else; each aggregate is the total size the snapshot carries
\* at that price and side; and diffsSinceLastRebuild is 0.  Nothing of the
\* store of before the snapshot remains.
C32_SnapshotResets ==
    [][(lastOp' = "snapshot" /\ lastIn'.hasLevels) =>
         LET levels == lastIn'.levels
             kept == KeptLevels(levels)
         IN  /\ DOMAIN orders' = {levels[i].oid : i \in kept}
             /\ \A k \in DOMAIN orders' :
                   \E i \in kept :
                      /\ Carries(levels[i], orders'[k])
                      /\ \A j \in kept : levels[j].oid = k => j <= i
             /\ \A m \in Members(byPrice') : \E i \in kept : Carries(levels[i], m)
             /\ MemberCount(byPrice') = Cardinality(kept)
             /\ \A p \in KnownPrices \cup DOMAIN bidMap' \cup DOMAIN askMap' :
                   \A sd \in {0, 1} :
                      AggregateNext(p, sd) = CarriedSize(levels, kept, p, sd)
             /\ diffsSinceLastRebuild' = 0]_vars
\* A Snapshot whose only order is excluded has emptied a store: the last
\* view shown had an order, the store has none.
C32_Witness ==
    /\ lastOp = "snapshot"
    /\ lastIn.hasLevels
    /\ Len(lastIn.levels) = 1
    /\ Untriggered(lastIn.levels[1])
    /\ snapshot # NoSnapshot
    /\ snapshot.count = 1
    /\ StoreEmpty

\* C33 - Zero buckets are deleted: in every reachable state every entry of
\* bidMap and askMap has a total size above epsilon, and so has every level
\* of the depth sides of a posted view; an order of size 0 leaves no level.
C33_ZeroBucketsDeleted ==
    /\ \A p \in DOMAIN bidMap : bidMap[p] > Epsilon
    /\ \A p \in DOMAIN askMap : askMap[p] > Epsilon
    /\ \A i \in 1..Len(view.bids) : view.bids[i].size > Epsilon
    /\ \A i \in 1..Len(view.asks) : view.asks[i].size > Epsilon

\* C34 - Tick size is fixed by the snapshot: cachedTickSize changes only in
\* the handler of a Snapshot or where the session is cleared (connect,
\* reconnect, disconnect); the handlers of an Updates batch, of a timer
\* tick, of setRebuildInterval and of a file load leave it as it is, and a
\* view posted by a tick carries it, whatever prices the diffs have added.
C34_TickSizeFixed ==
    [][/\ cachedTickSize' # cachedTickSize =>
            lastOp' \in {"snapshot", "connect", "reconnect", "disconnect"}
       /\ lastOp' \in {"updates", "tick", "setRebuildInterval", "parseFile"} =>
            cachedTickSize' = cachedTickSize
       /\ (lastOp' = "tick" /\ view' # NoView) => view'.tickSize = cachedTickSize]_vars
\* A tick has posted a view with the tick size 2 of the snapshot although
\* the book now has two prices 1 apart.
C34_Witness ==
    /\ lastOp = "tick"
    /\ view # NoView
    /\ view.tickSize = 2
    /\ \E p \in DOMAIN byPrice : (p + 1) \in DOMAIN byPrice

\* The rows of a heatmap in the column of row i: same price, same side.
ColumnOf(rows, i) ==
    {k \in 1..Len(rows) : rows[k].price = rows[i].price /\ rows[k].side = rows[i].side}
RECURSIVE SizeOfRows(_, _)
SizeOfRows(rows, is) ==
    IF is = {} THEN 0
    ELSE LET i == CHOOSE x \in is : TRUE IN rows[i].size + SizeOfRows(rows, is \ {i})

\* C35 - Regroup bucket rule: once the heatmap is regrouped to a tick size T
\* that is a multiple of its own and larger, the row of each order (orders
\* are told apart by their users here) has as price the largest multiple of
\* T at or below the order's price if it is a bid and the smallest multiple
\* of T at or above it if it is an ask; the rows of one (price, side) column
\* come in ascending timestamp order, each with the total size of the rows
\* of the column before it as yOffset; and maxCumSize is the largest total
\* size of a column.
C35_BucketRule ==
    (/\ snapshot # NoSnapshot
     /\ tickSize > snapshot.tickSize
     /\ tickSize % snapshot.tickSize = 0) =>
        LET T == tickSize
            rows == heatmapData.rows
        IN  /\ \A i \in 1..Len(snapshot.rows) :
                  \E j \in 1..Len(rows) :
                     /\ rows[j].user = snapshot.rows[i].user
                     /\ rows[j].price % T = 0
                     /\ IF snapshot.rows[i].side = 0
                        THEN /\ rows[j].price <= snapshot.rows[i].price
                             /\ snapshot.rows[i].price < rows[j].price + T
                        ELSE /\ rows[j].price >= snapshot.rows[i].price
                             /\ snapshot.rows[i].price > rows[j].price - T
            /\ \A i \in 1..Len(rows) :
                  /\ \A k \in ColumnOf(rows, i) :
                        k < i => rows[k].timestamp <= rows[i].timestamp
                  /\ rows[i].yOffset = SizeOfRows(rows, {k \in ColumnOf(rows, i) : k < i})
                  /\ SizeOfRows(rows, ColumnOf(rows, i)) <= heatmapData.maxCumSize
            /\ (rows # << >>) =>
                  \E i \in 1..Len(rows) :
                     SizeOfRows(rows, ColumnOf(rows, i)) = heatmapData.maxCumSize
\* Two bids, the later one at price 3 listed first, the earlier one at price
\* 2, regrouped to tick size 2: both are in the column at 2, the earlier
\* one below the later one.
C35_Witness ==
    /\ lastOp = "tick size"
    /\ snapshot.tickSize = 1
    /\ tickSize = 2
    /\ snapshot.count = 2
    /\ snapshot.rows[1].price = 3 /\ snapshot.rows[1].side = 0
    /\ snapshot.rows[2].price = 2 /\ snapshot.rows[2].side = 0
    /\ snapshot.rows[1].timestamp > snapshot.rows[2].timestamp
    /\ heatmapData.rows[1].user = snapshot.rows[2].user
    /\ heatmapData.rows[2].price = 2
    /\ heatmapData.rows[2].yOffset = snapshot.rows[2].size

\* The click the last step made, in the terms of the locator's description.
ClickTargetPrice == TargetPrice(nearest.range, nearest.fx)
ClickTargetY == TargetY(nearest.range, nearest.fy)
SmallestPriceDist ==
    LET d(i) == PriceDist(heatmapData, i, ClickTargetPrice)
    IN  d(CHOOSE i \in 1..heatmapData.count : \A j \in 1..heatmapData.count : d(i) <= d(j))
TooFar ==
    \/ heatmapData.count = 0
    \/ 2 * SmallestPriceDist > CursorDen * heatmapData.tickSize
EmptyRange ==
    \/ nearest.range.priceMax <= nearest.range.priceMin
    \/ nearest.range.yMax <= nearest.range.yMin
SpanContains(i) ==
    /\ CursorDen * heatmapData.rows[i].yOffset <= ClickTargetY
    /\ ClickTargetY <= CursorDen * (heatmapData.rows[i].yOffset + heatmapData.rows[i].size)
EdgeDist(i) ==
    Min(Abs(ClickTargetY - CursorDen * heatmapData.rows[i].yOffset),
        Abs(ClickTargetY - CursorDen * (heatmapData.rows[i].yOffset + heatmapData.rows[i].size)))
FoundIsNearest ==
    LET i == nearest.found.index
        at == {j \in 1..heatmapData.count :
                 heatmapData.rows[j].price = heatmapData.rows[i].price}
    IN  /\ nearest.found # NoOrder
        /\ PriceDist(heatmapData, i, ClickTargetPrice) = SmallestPriceDist
        /\ nearest.found.price = heatmapData.rows[i].price
        /\ IF \E j \in at : SpanContains(j) THEN SpanContains(i)
           ELSE \A j \in at : EdgeDist(i) <= EdgeDist(j)
\* C36 as stated: a click finds no order exactly when the view has no orders
\* or the nearest price is further than half a tick from the cursor;
\* otherwise it finds an order at the nearest price whose span contains the
\* cursor, or failing that one whose nearer edge is closest to it.
C36_AsStated ==
    lastOp = "click" => IF TooFar THEN nearest.found = NoOrder ELSE FoundIsNearest
\* C36: a click finds no order when the view range is empty, when the view
\* has no orders or when the nearest price is further than half a tick from
\* the cursor; otherwise it finds an order at the nearest price whose span
\* contains the cursor, or failing that one whose nearer edge is closest.
C36_NearestOrder ==
    lastOp = "click" =>
        IF EmptyRange \/ TooFar THEN nearest.found = NoOrder ELSE FoundIsNearest
\* A click between two stacked orders of one column that finds the upper one,
\* whose span holds the cursor.
C36_Witness ==
    /\ lastOp = "click"
    /\ ~EmptyRange
    /\ nearest.found # NoOrder
    /\ nearest.found.yOffset > 0
    /\ SpanContains(nearest.found.index)
    /\ \E j \in 1..heatmapData.count :
          /\ heatmapData.rows[j].price = nearest.found.price
          /\ ~SpanContains(j)

\* C37: the rebuild timer runs only while the transport is open and the last
\* status posted is 'subscribed', never together with a pending reconnect
\* timer; setRebuildInterval starts no rebuild timer when none is running,
\* and after a disconnect neither timer is active.
C37_TimerExclusivity ==
    [][/\ rebuildTimer' => (ws' = "open" /\ CurStatus' = "subscribed")
       /\ ~(rebuildTimer' /\ reconnectTimer')
       /\ lastOp' = "setRebuildInterval" => (rebuildTimer' => rebuildTimer)
       /\ lastOp' = "disconnect" => (~rebuildTimer' /\ ~reconnectTimer')]_vars
\* setRebuildInterval arrives while the transport is closed and a reconnect
\* is pending, and leaves the rebuild timer stopped.
C37_Witness ==
    /\ lastOp = "setRebuildInterval"
    /\ ws = "closed"
    /\ reconnectTimer
    /\ ~rebuildTimer

\* C38: every 'update' a tick posts reports at least one diff applied since
\* the last view posted.
C38_NoRedundantRebuild ==
    (lastOp = "tick" /\ out = <<"update">>) => view.diffsApplied >= 1

\* C39: a 'snapshot' or 'update' view is posted only while the transport is
\* open and the last status is 'subscribed'; every connection attempt, by
\* connect or by the reconnect timer, leaves the store empty and the dirty
\* flag clear; and from there only a message of the current transport or a
\* file load changes the store, so that no order of an earlier transport is
\* in a later view.
PostsView(msgs) == \E i \in 1..Len(msgs) : msgs[i] \in ViewKinds
C39_ViewsOnlyWhileSubscribed ==
    [][/\ PostsView(out') => /\ ws = "open" /\ ws' = "open"
                             /\ CurStatus = "subscribed"
                             /\ CurStatus' = "subscribed"
       /\ lastOp' \in {"connect", "reconnect"}
            => /\ Store' = EmptyStore
               /\ ~dirty'
               /\ diffsSinceLastRebuild' = 0
               /\ ~PostsView(out')
       /\ Store' # Store
            => \/ lastOp' \in {"connect", "reconnect", "disconnect"}
               \/ lastOp' \in {"snapshot", "updates"} /\ ws = "open"
               \/ lastOp' = "parseFile"]_vars
\* A view is posted on a transport that replaced a cancelled one.
C39_Witness ==
    /\ lastOp = "tick"
    /\ out = <<"update">>
    /\ oldHandlers = "detached"
    /\ view.count >= 1

\* C40: every callback the worker client has invoked belongs to the parse
\* call whose buffer the result came from, and no call has had more than
\* one callback invoked; once nothing is in flight every call has had one.
CallbacksOf(call) == {i \in 1..Len(client.invoked) : client.invoked[i].call = call}
C40_Pairing ==
    /\ \A i \in 1..Len(client.invoked) : client.invoked[i].of = client.invoked[i].call
    /\ \A call \in 1..client.calls : Cardinality(CallbacksOf(call)) <= 1
    /\ (client.inbox = << >> /\ client.replies = << >>)
         => \A call \in 1..client.calls : Cardinality(CallbacksOf(call)) = 1

====
